---------------------------- MODULE Spec2Model ----------------------------
(***************************************************************************)
(* Session lifecycle engines of the liveconnect repository.                *)
(*                                                                         *)
(* The repository holds four independent signalling servers:               *)
(*   LC  LiveConnect        src/unnamed/part_001, lines 1-516              *)
(*   BT  BrownTV            src/unnamed/part_001, lines 518-1099           *)
(*   B2  BrownTV 2.0        src/unnamed/part_000                           *)
(*   RS  BrownTV 3.0/Redis  src/server.js                                  *)
(* Each is a separate program with its own maps and queues.  The variable  *)
(* `variant` says which program a behaviour runs; the state of the other   *)
(* three stays at its initial value.                                       *)
(*                                                                         *)
(* A socket.io handler runs to completion, so a handler without an await   *)
(* is one action.  The handlers of server.js are async: each await on the  *)
(* Redis client is a point where other handlers run, and those are         *)
(* modelled as separate steps of a task.                                   *)
(***************************************************************************)
EXTENDS Integers, Sequences, FiniteSets, TLC

\* ------------------------------------------------------------------------
\* Bounds of the model
\* ------------------------------------------------------------------------
\* connections opened in one behaviour (socket ids are never reused)
MaxUsers == 3
\* events of one behaviour that change a profile or a block list: update-profile,
\* filtered-search, set-language-practice, block-user, report-user, a paying
\* instant-connect and a find-match that carries a preference
MaxUpdates == 2

\* socket ids in the order in which the connections are opened
IdSeq == <<"s1", "s2", "s3", "s4", "s5">>
Ids == {IdSeq[i] : i \in 1..MaxUsers}
IdxOf(id) == CHOOSE i \in 1..MaxUsers : IdSeq[i] = id

\* JavaScript null / undefined
null == "null"
undefined == "undefined"

VARIABLES
    variant,          \* which server runs: "LC", "BT", "B2" or "RS"
    nconn,            \* number of connections opened so far
    nupd,             \* number of events counted by MaxUpdates so far
    out,              \* the events the last handler emitted: records [from, to, ev, ...],
                      \* from = the socket whose handler emitted, to = the receiver
    \* BrownTV (part_001:518-1099)
    usersBT,          \* users: Map socket id -> user record
    waitingQueuesBT,  \* waitingQueues: {all, male, female}
    blockedUsersBT,   \* blockedUsers: Map socket id -> blocked ids
    \* LiveConnect (part_001:1-516)
    usersLC,          \* users: Map socket id -> user record
    waitingQueue,     \* waitingQueue: array of socket ids
    rooms,            \* rooms: Map room id -> [user1, user2]
    \* BrownTV 2.0 (part_000)
    usersB2,          \* users: Map socket id -> user record
    waitingQueuesB2,  \* waitingQueues: {all, male, female, random, instant}
    crashed,          \* an exception left a handler: the Node process has ended
    \* BrownTV 3.0 (server.js)
    userProfiles,     \* userProfiles: Map socket id -> profile
    waitingUsers,     \* matchmaker.waitingUsers: {all, male, female, random}
    redis,            \* the hashes user:<id> of the Redis store
    pending,          \* async functions suspended at an await on a Redis reply, oldest first
    timers,           \* pending setTimeout(..., 1000) callbacks of find-match, oldest first
    deleteTimers,     \* pending setTimeout(..., 60000) callbacks of disconnect, oldest first
    connected         \* sockets whose event handlers are registered and that are open

varsBT == <<usersBT, waitingQueuesBT, blockedUsersBT>>
varsLC == <<usersLC, waitingQueue, rooms>>
varsB2 == <<usersB2, waitingQueuesB2, crashed>>
varsRS == <<userProfiles, waitingUsers, redis, pending, timers, deleteTimers, connected>>
vars == <<variant, nconn, nupd, out, varsBT, varsLC, varsB2, varsRS>>

\* ------------------------------------------------------------------------
\* Array helpers (JavaScript semantics, 1-based)
\* ------------------------------------------------------------------------
\* Array.prototype.indexOf: the first index holding x, 0 when absent (JS: -1)
indexOf(q, x) ==
    IF \E i \in 1..Len(q) : q[i] = x
    THEN CHOOSE i \in 1..Len(q) : q[i] = x /\ \A j \in 1..(i - 1) : q[j] # x
    ELSE 0

\* q.splice(i, 1); past the end of q it removes nothing
spliceAt(q, i) ==
    IF i > Len(q) THEN q ELSE SubSeq(q, 1, i - 1) \o SubSeq(q, i + 1, Len(q))

\* const idx = q.indexOf(x); if (idx > -1) q.splice(idx, 1)
spliceFirst(q, x) == IF indexOf(q, x) > 0 THEN spliceAt(q, indexOf(q, x)) ELSE q

\* the last index of q whose entry satisfies Ok, 0 when there is none
FirstIdx_fromBack(q, Ok(_)) ==
    IF \E i \in 1..Len(q) : Ok(q[i])
    THEN CHOOSE i \in 1..Len(q) : Ok(q[i]) /\ \A j \in (i + 1)..Len(q) : ~Ok(q[j])
    ELSE 0

\* the first index of q whose entry satisfies Ok, 0 when there is none
FirstIdx(q, Ok(_)) ==
    IF \E i \in 1..Len(q) : Ok(q[i])
    THEN CHOOSE i \in 1..Len(q) : Ok(q[i]) /\ \A j \in 1..(i - 1) : ~Ok(q[j])
    ELSE 0

Range(q) == {q[i] : i \in 1..Len(q)}
Count(q, x) == Cardinality({i \in 1..Len(q) : q[i] = x})

\* Map.delete
MapDelete(m, k) == [x \in DOMAIN m \ {k} |-> m[x]]
\* Map.set
MapSet(m, k, v) == [x \in DOMAIN m \cup {k} |-> IF x = k THEN v ELSE m[x]]

\* ========================================================================
\* BrownTV, src/unnamed/part_001 lines 518-1099
\* ========================================================================
\* country.region of a connection (randomCountry) and the regionFilter values sent
Regions == {"europe"}
RegionFilterInputs == {"asia"}
QueueNamesBT == {"all", "male", "female"}

\* the payloads of update-profile that the model sends: one field each, legal
\* values and one value ("x") outside the legal set
NoData == [gender |-> undefined, lookingFor |-> undefined, regionFilter |-> undefined]
UpdateDataBT ==
    {[NoData EXCEPT !.gender = g] : g \in {"male", "female", "x"}}
        \cup {[NoData EXCEPT !.lookingFor = l] : l \in {"all", "male", "female", "x"}}
        \cup {[NoData EXCEPT !.regionFilter = r] : r \in RegionFilterInputs}

\* the user record of the connection handler
NewUserBT(region) ==
    [gender |-> null, lookingFor |-> "all", regionFilter |-> null, region |-> region,
     inCall |-> FALSE, partnerId |-> null, searching |-> FALSE, callStartTime |-> null]

removeFromQueuesBT(queues, socketId) ==
    [q \in DOMAIN queues |-> spliceFirst(queues[q], socketId)]

\* Variant of the block test that looks at the requester's list only
isBlockedBT_ownListOnly(blocked, a, b) == b \in blocked[a]

isBlockedBT(blocked, a, b) == b \in blocked[a] \/ a \in blocked[b]

\* the candidate test of the first loop of findMatch
CandidateOkBT(users, blocked, socketId, matchId) ==
    /\ matchId # socketId
    /\ matchId \in DOMAIN users
    /\ ~users[matchId].inCall
    /\ ~isBlockedBT(blocked, socketId, matchId)
    /\ ~(users[socketId].regionFilter # null
            /\ users[matchId].region # users[socketId].regionFilter)
    /\ ~(users[matchId].regionFilter # null
            /\ users[socketId].region # users[matchId].regionFilter)
    /\ ~(users[matchId].lookingFor # "all"
            /\ users[matchId].lookingFor # users[socketId].gender)

\* the candidate test of the second loop (the 'all' queue): no gender check
FallbackOkBT(users, blocked, socketId, matchId) ==
    /\ matchId # socketId
    /\ matchId \in DOMAIN users
    /\ ~users[matchId].inCall
    /\ ~isBlockedBT(blocked, socketId, matchId)
    /\ ~(users[socketId].regionFilter # null
            /\ users[matchId].region # users[socketId].regionFilter)
    /\ ~(users[matchId].regionFilter # null
            /\ users[socketId].region # users[matchId].regionFilter)

searchQueueBT(user) ==
    IF user.lookingFor = "male" THEN "male"
    ELSE IF user.lookingFor = "female" THEN "female" ELSE "all"

\* Variant of findMatch that takes the passing entry nearest the back of each queue
findMatchBT_fromBack(users, queues, blocked, socketId) ==
    LET sq == searchQueueBT(users[socketId])
        i == FirstIdx_fromBack(queues[sq],
                               LAMBDA m : CandidateOkBT(users, blocked, socketId, m))
        j == FirstIdx_fromBack(queues["all"],
                               LAMBDA m : FallbackOkBT(users, blocked, socketId, m))
    IN  IF socketId \notin DOMAIN users THEN [matchId |-> null, queues |-> queues]
        ELSE IF i > 0
        THEN [matchId |-> queues[sq][i],
              queues |-> [queues EXCEPT ![sq] = spliceAt(queues[sq], i)]]
        ELSE IF sq # "all" /\ j > 0
        THEN [matchId |-> queues["all"][j],
              queues |-> [queues EXCEPT !["all"] = spliceAt(queues["all"], j)]]
        ELSE [matchId |-> null, queues |-> queues]

\* findMatch(socketId): [matchId, queues]
findMatchBT(users, queues, blocked, socketId) ==
    LET sq == searchQueueBT(users[socketId])
        i == FirstIdx(queues[sq], LAMBDA m : CandidateOkBT(users, blocked, socketId, m))
        j == FirstIdx(queues["all"], LAMBDA m : FallbackOkBT(users, blocked, socketId, m))
    IN  IF socketId \notin DOMAIN users THEN [matchId |-> null, queues |-> queues]
        ELSE IF i > 0
        THEN [matchId |-> queues[sq][i],
              queues |-> [queues EXCEPT ![sq] = spliceAt(queues[sq], i)]]
        ELSE IF sq # "all" /\ j > 0
        THEN [matchId |-> queues["all"][j],
              queues |-> [queues EXCEPT !["all"] = spliceAt(queues["all"], j)]]
        ELSE [matchId |-> null, queues |-> queues]

\* createMatch(id1, id2): [ok, users, queues]
createMatchBT(users, queues, id1, id2) ==
    IF id1 \notin DOMAIN users \/ id2 \notin DOMAIN users
    THEN [ok |-> FALSE, users |-> users, queues |-> queues]
    ELSE LET u1 == [users EXCEPT ![id1].inCall = TRUE, ![id1].partnerId = id2,
                                 ![id1].searching = FALSE, ![id1].callStartTime = "set"]
             u2 == [u1 EXCEPT ![id2].inCall = TRUE, ![id2].partnerId = id1,
                              ![id2].searching = FALSE, ![id2].callStartTime = "set"]
         IN  [ok |-> TRUE, users |-> u2,
              queues |-> removeFromQueuesBT(removeFromQueuesBT(queues, id1), id2)]

\* Variant of endCall that clears only the caller's side
endCallBT_oneSided(users, socketId) ==
    IF socketId \notin DOMAIN users THEN [partnerId |-> null, users |-> users]
    ELSE [partnerId |-> users[socketId].partnerId,
          users |-> [users EXCEPT ![socketId].inCall = FALSE,
                                  ![socketId].partnerId = null,
                                  ![socketId].callStartTime = null]]

\* endCall(socketId): [partnerId, users]
endCallBT(users, socketId) ==
    IF socketId \notin DOMAIN users THEN [partnerId |-> null, users |-> users]
    ELSE LET partnerId == users[socketId].partnerId
             u1 == [users EXCEPT ![socketId].inCall = FALSE,
                                 ![socketId].partnerId = null,
                                 ![socketId].callStartTime = null]
             u2 == IF partnerId # null /\ partnerId \in DOMAIN users
                   THEN [u1 EXCEPT ![partnerId].inCall = FALSE,
                                   ![partnerId].partnerId = null,
                                   ![partnerId].callStartTime = null]
                   ELSE u1
         IN  [partnerId |-> partnerId, users |-> u2]

\* io.on('connection')
ConnectBT ==
    /\ variant = "BT"
    /\ nconn < MaxUsers
    /\ \E region \in Regions :
         usersBT' = MapSet(usersBT, IdSeq[nconn + 1], NewUserBT(region))
    /\ nconn' = nconn + 1
    /\ out' = {[from |-> IdSeq[nconn + 1], to |-> IdSeq[nconn + 1], ev |-> "init"]}
    /\ UNCHANGED <<varsLC, varsB2, varsRS, variant, nupd, waitingQueuesBT, blockedUsersBT>>

\* the fields update-profile writes
updateProfileBT(u, data) ==
    [u EXCEPT
       !.gender = IF data.gender # undefined
                  THEN (IF data.gender \in {"male", "female"} THEN data.gender ELSE null)
                  ELSE @,
       !.lookingFor = IF data.lookingFor # undefined
                      THEN (IF data.lookingFor \in {"all", "male", "female"}
                            THEN data.lookingFor ELSE "all")
                      ELSE @,
       !.regionFilter = IF data.regionFilter # undefined THEN data.regionFilter ELSE @]

\* socket.on('update-profile')
UpdateProfileBT(s) ==
    /\ variant = "BT"
    /\ s \in DOMAIN usersBT
    /\ nupd < MaxUpdates
    /\ \E data \in UpdateDataBT :
         usersBT' = [usersBT EXCEPT ![s] = updateProfileBT(@, data)]
    /\ nupd' = nupd + 1
    /\ out' = {[from |-> s, to |-> s, ev |-> "profile-updated"]}
    /\ UNCHANGED <<varsLC, varsB2, varsRS, variant, nconn, waitingQueuesBT, blockedUsersBT>>

\* the queue a waiting user is appended to: by its own gender
ownQueueBT(user) ==
    IF user.gender = "male" THEN "male"
    ELSE IF user.gender = "female" THEN "female" ELSE "all"

\* socket.on('find-match')
FindMatchBT(s) ==
    /\ variant = "BT"
    /\ s \in DOMAIN usersBT
    /\ IF usersBT[s].searching \/ usersBT[s].inCall
       THEN /\ out' = {}
            /\ UNCHANGED varsBT
       ELSE LET users1 == [usersBT EXCEPT ![s].searching = TRUE]
                queues1 == removeFromQueuesBT(waitingQueuesBT, s)
                found == findMatchBT(users1, queues1, blockedUsersBT, s)
                made == createMatchBT(users1, found.queues, s, found.matchId)
                oq == ownQueueBT(users1[s])
            IN  IF found.matchId # null
                THEN IF made.ok
                     THEN /\ usersBT' = made.users
                          /\ waitingQueuesBT' = made.queues
                          /\ out' = {[from |-> s, to |-> s, ev |-> "match-found",
                                      partner |-> found.matchId, isInitiator |-> TRUE],
                                     [from |-> s, to |-> found.matchId, ev |-> "match-found",
                                      partner |-> s, isInitiator |-> FALSE]}
                     ELSE /\ usersBT' = users1
                          /\ waitingQueuesBT' = found.queues
                          /\ out' = {}
                ELSE /\ usersBT' = users1
                     /\ waitingQueuesBT' =
                            [found.queues EXCEPT ![oq] = Append(@, s)]
                     /\ out' = {[from |-> s, to |-> s, ev |-> "searching"]}
    /\ UNCHANGED <<varsLC, varsB2, varsRS, variant, nconn, nupd, blockedUsersBT>>

\* Variant of cancel-search that leaves the session in its queue
CancelSearchBT_keepQueued(s) ==
    /\ variant = "BT"
    /\ s \in DOMAIN usersBT
    /\ usersBT' = [usersBT EXCEPT ![s].searching = FALSE]
    /\ out' = {[from |-> s, to |-> s, ev |-> "search-cancelled"]}
    /\ UNCHANGED <<varsLC, varsB2, varsRS, variant, nconn, nupd, blockedUsersBT,
                   waitingQueuesBT>>

\* socket.on('cancel-search')
CancelSearchBT(s) ==
    /\ variant = "BT"
    /\ s \in DOMAIN usersBT
    /\ usersBT' = [usersBT EXCEPT ![s].searching = FALSE]
    /\ waitingQueuesBT' = removeFromQueuesBT(waitingQueuesBT, s)
    /\ out' = {[from |-> s, to |-> s, ev |-> "search-cancelled"]}
    /\ UNCHANGED <<varsLC, varsB2, varsRS, variant, nconn, nupd, blockedUsersBT>>

\* what next-partner, end-call, block-user and report-user send the partner
PartnerLeftBT(s, partnerId, reason) ==
    IF partnerId # null
    THEN {[from |-> s, to |-> partnerId, ev |-> "partner-left", reason |-> reason]}
    ELSE {}

\* socket.on('next-partner')
NextPartnerBT(s) ==
    /\ variant = "BT"
    /\ s \in DOMAIN usersBT
    /\ LET r == endCallBT(usersBT, s)
       IN  /\ usersBT' = r.users
           /\ out' = PartnerLeftBT(s, r.partnerId, "skipped")
                        \cup {[from |-> s, to |-> s, ev |-> "ready-for-next"]}
    /\ UNCHANGED <<varsLC, varsB2, varsRS, variant, nconn, nupd, waitingQueuesBT, blockedUsersBT>>

\* socket.on('end-call')
EndCallBT(s) ==
    /\ variant = "BT"
    /\ s \in DOMAIN usersBT
    /\ LET r == endCallBT(usersBT, s)
       IN  /\ usersBT' = r.users
           /\ out' = PartnerLeftBT(s, r.partnerId, "ended")
                        \cup {[from |-> s, to |-> s, ev |-> "call-ended"]}
    /\ UNCHANGED <<varsLC, varsB2, varsRS, variant, nconn, nupd, waitingQueuesBT, blockedUsersBT>>

RelayEvents == {"webrtc-offer", "webrtc-answer", "ice-candidate"}

\* what a relay handler emits: io.to(u.partnerId).emit(ev) if (u?.partnerId)
relayBT(users, s, ev) ==
    IF s \in DOMAIN users /\ users[s].partnerId # null
    THEN {[from |-> s, to |-> users[s].partnerId, ev |-> ev]}
    ELSE {}

\* socket.on('webrtc-offer' | 'webrtc-answer' | 'ice-candidate')
RelayBT(s) ==
    /\ variant = "BT"
    /\ s \in DOMAIN usersBT
    /\ \E ev \in RelayEvents :
         /\ out' = relayBT(usersBT, s, ev)
    /\ UNCHANGED <<varsLC, varsB2, varsRS, variant, nconn, nupd, varsBT>>

\* socket.on('block-user') and socket.on('report-user'): block the partner, end the call
BlockOrReportBT(s) ==
    /\ variant = "BT"
    /\ s \in DOMAIN usersBT
    /\ \E op \in {"block-user", "report-user"} :
         /\ IF usersBT[s].partnerId # null
            THEN LET r == endCallBT(usersBT, s)
                 IN  /\ nupd < MaxUpdates /\ nupd' = nupd + 1
                     /\ blockedUsersBT' =
                            [blockedUsersBT EXCEPT ![s] = @ \cup {usersBT[s].partnerId}]
                     /\ usersBT' = r.users
                     /\ out' = PartnerLeftBT(s, r.partnerId,
                                    IF op = "block-user" THEN "blocked" ELSE "reported")
                                 \cup {[from |-> s, to |-> s, ev |-> IF op = "block-user"
                                                          THEN "user-blocked"
                                                          ELSE "report-submitted"]}
            ELSE /\ out' = {}
                 /\ UNCHANGED <<usersBT, blockedUsersBT, nupd>>
    /\ UNCHANGED <<varsLC, varsB2, varsRS, variant, nconn, waitingQueuesBT>>

\* Variant of the disconnect handler that leaves the partner untouched
disconnectBT_forgetPartner(users, s) == MapDelete(users, s)

\* the users the disconnect handler leaves behind
disconnectBT(users, s) ==
    LET p == users[s].partnerId
        u1 == IF p # null /\ p \in DOMAIN users
              THEN [users EXCEPT ![p].inCall = FALSE, ![p].partnerId = null]
              ELSE users
    IN  MapDelete(u1, s)

\* socket.on('disconnect')
DisconnectBT(s) ==
    /\ variant = "BT"
    /\ s \in DOMAIN usersBT
    /\ usersBT' = disconnectBT(usersBT, s)
    /\ waitingQueuesBT' = removeFromQueuesBT(waitingQueuesBT, s)
    /\ out' = IF usersBT[s].partnerId # null /\ usersBT[s].partnerId \in DOMAIN usersBT
              THEN {[from |-> s, to |-> usersBT[s].partnerId, ev |-> "partner-left",
                     reason |-> "disconnected"]}
              ELSE {}
    /\ UNCHANGED <<varsLC, varsB2, varsRS, variant, nconn, nupd, blockedUsersBT>>

\* io.sockets.sockets.get(id)?.connected: a socket leaves io.sockets.sockets in the
\* same tick in which its disconnect handler runs, and that handler deletes the user
connectedBT(users, id) == id \in DOMAIN users

\* the ids the cleanup interval deletes
staleBT(users) ==
    {id \in DOMAIN users :
        users[id].searching /\ ~users[id].inCall /\ ~connectedBT(users, id)}

\* setInterval(..., 60000): cleanup of stale connections
SweepBT ==
    /\ variant = "BT"
    /\ usersBT' = [id \in DOMAIN usersBT \ staleBT(usersBT) |-> usersBT[id]]
    /\ waitingQueuesBT' =
          [q \in DOMAIN waitingQueuesBT |->
              SelectSeq(waitingQueuesBT[q], LAMBDA x : x \notin staleBT(usersBT))]
    /\ out' = {}
    /\ UNCHANGED <<varsLC, varsB2, varsRS, variant, nconn, nupd, blockedUsersBT>>

InitBT ==
    /\ usersBT = << >>
    /\ waitingQueuesBT = [q \in QueueNamesBT |-> << >>]
    /\ blockedUsersBT = [id \in Ids |-> {}]

NextBT ==
    \/ ConnectBT
    \/ \E s \in Ids : UpdateProfileBT(s)
    \/ \E s \in Ids : FindMatchBT(s)
    \/ \E s \in Ids : CancelSearchBT(s)
    \/ \E s \in Ids : NextPartnerBT(s)
    \/ \E s \in Ids : EndCallBT(s)
    \/ \E s \in Ids : RelayBT(s)
    \/ \E s \in Ids : BlockOrReportBT(s)
    \/ \E s \in Ids : DisconnectBT(s)
    \/ SweepBT

\* ========================================================================
\* LiveConnect, src/unnamed/part_001 lines 1-516
\* ========================================================================
\* room ids (uuidv4): a new room takes an id that nothing refers to
RoomSeq == <<"r1", "r2", "r3", "r4", "r5", "r6">>

NewUserLC ==
    [inCall |-> FALSE, partnerId |-> null, roomId |-> null, searching |-> FALSE]

uuidv4LC(users, rms) ==
    LET used == DOMAIN rms \cup {users[id].roomId : id \in DOMAIN users}
    IN  RoomSeq[CHOOSE i \in 1..Len(RoomSeq) :
                    RoomSeq[i] \notin used /\ \A j \in 1..(i - 1) : RoomSeq[j] \in used]

\* findMatch(socketId): [matchId, queue]
findMatchLC(users, queue, socketId) ==
    LET i == FirstIdx(queue, LAMBDA m : /\ m # socketId
                                        /\ m \in DOMAIN users
                                        /\ ~users[m].inCall
                                        /\ users[m].searching)
    IN  IF socketId \notin DOMAIN users \/ i = 0
        THEN [matchId |-> null, queue |-> queue]
        ELSE [matchId |-> queue[i], queue |-> spliceAt(queue, i)]

\* createRoom(user1Id, user2Id): [roomId, users, rooms]
createRoom(users, rms, user1Id, user2Id) ==
    LET roomId == uuidv4LC(users, rms)
        rooms1 == MapSet(rms, roomId, [user1 |-> user1Id, user2 |-> user2Id])
    IN  IF user1Id \in DOMAIN users /\ user2Id \in DOMAIN users
        THEN [roomId |-> roomId, rooms |-> rooms1,
              users |-> [users EXCEPT
                  ![user1Id] = [inCall |-> TRUE, partnerId |-> user2Id,
                                roomId |-> roomId, searching |-> FALSE],
                  ![user2Id] = [inCall |-> TRUE, partnerId |-> user1Id,
                                roomId |-> roomId, searching |-> FALSE]]]
        ELSE [roomId |-> roomId, rooms |-> rooms1, users |-> users]

\* Variant of endRoom that clears the two users and leaves the room in the map
endRoom_keepRoom(users, rms, roomId) ==
    IF roomId \notin DOMAIN rms THEN [users |-> users, rooms |-> rms]
    ELSE LET room == rms[roomId]
             clear(us, id) ==
                 IF id \in DOMAIN us
                 THEN [us EXCEPT ![id].inCall = FALSE, ![id].partnerId = null,
                                 ![id].roomId = null]
                 ELSE us
         IN  [users |-> clear(clear(users, room.user1), room.user2),
              rooms |-> rms]

\* endRoom(roomId): [users, rooms]
endRoom(users, rms, roomId) ==
    IF roomId \notin DOMAIN rms THEN [users |-> users, rooms |-> rms]
    ELSE LET room == rms[roomId]
             clear(us, id) ==
                 IF id \in DOMAIN us
                 THEN [us EXCEPT ![id].inCall = FALSE, ![id].partnerId = null,
                                 ![id].roomId = null]
                 ELSE us
         IN  [users |-> clear(clear(users, room.user1), room.user2),
              rooms |-> MapDelete(rms, roomId)]

\* waitingQueue.filter(id => id !== socketId)
filterOut(queue, socketId) == SelectSeq(queue, LAMBDA x : x # socketId)

\* io.on('connection')
ConnectLC ==
    /\ variant = "LC"
    /\ nconn < MaxUsers
    /\ usersLC' = MapSet(usersLC, IdSeq[nconn + 1], NewUserLC)
    /\ nconn' = nconn + 1
    /\ out' = {[from |-> IdSeq[nconn + 1], to |-> IdSeq[nconn + 1], ev |-> "user-info"]}
    /\ UNCHANGED <<varsBT, varsB2, varsRS, variant, nupd, waitingQueue, rooms>>

\* socket.on('find-match')
FindMatchLC(s) ==
    /\ variant = "LC"
    /\ s \in DOMAIN usersLC
    /\ IF usersLC[s].searching \/ usersLC[s].inCall
       THEN /\ out' = {}
            /\ UNCHANGED varsLC
       ELSE LET users1 == [usersLC EXCEPT ![s].searching = TRUE]
                found == findMatchLC(users1, waitingQueue, s)
                made == createRoom(users1, rooms, s, found.matchId)
            IN  IF found.matchId # null
                THEN /\ usersLC' = made.users
                     /\ rooms' = made.rooms
                     /\ waitingQueue' = found.queue
                     /\ out' = {[from |-> s, to |-> s, ev |-> "match-found",
                                 partner |-> found.matchId, isInitiator |-> TRUE],
                                [from |-> s, to |-> found.matchId, ev |-> "match-found",
                                 partner |-> s, isInitiator |-> FALSE]}
                ELSE /\ usersLC' = users1
                     /\ rooms' = rooms
                     /\ waitingQueue' = IF s \in Range(found.queue) THEN found.queue
                                        ELSE Append(found.queue, s)
                     /\ out' = {[from |-> s, to |-> s, ev |-> "searching"]}
    /\ UNCHANGED <<varsBT, varsB2, varsRS, variant, nconn, nupd>>

\* socket.on('cancel-search')
CancelSearchLC(s) ==
    /\ variant = "LC"
    /\ s \in DOMAIN usersLC
    /\ usersLC' = [usersLC EXCEPT ![s].searching = FALSE]
    /\ waitingQueue' = filterOut(waitingQueue, s)
    /\ out' = {}
    /\ UNCHANGED <<varsBT, varsB2, varsRS, variant, nconn, nupd, rooms>>

\* socket.on('next-partner')
NextPartnerLC(s) ==
    /\ variant = "LC"
    /\ s \in DOMAIN usersLC
    /\ LET u == usersLC[s]
           r == IF u.roomId # null THEN endRoom(usersLC, rooms, u.roomId)
                ELSE [users |-> usersLC, rooms |-> rooms]
       IN  /\ usersLC' = [r.users EXCEPT ![s] = NewUserLC]
           /\ rooms' = r.rooms
           /\ out' = (IF u.roomId # null /\ u.partnerId # null
                      THEN {[from |-> s, to |-> u.partnerId, ev |-> "partner-left"]}
                      ELSE {})
                        \cup {[from |-> s, to |-> s, ev |-> "start-new-search"]}
    /\ waitingQueue' = filterOut(waitingQueue, s)
    /\ UNCHANGED <<varsBT, varsB2, varsRS, variant, nconn, nupd>>

\* socket.on('end-call')
EndCallLC(s) ==
    /\ variant = "LC"
    /\ s \in DOMAIN usersLC
    /\ LET u == usersLC[s]
           r == endRoom(usersLC, rooms, u.roomId)
       IN  IF u.roomId = null
           THEN /\ out' = {}
                /\ UNCHANGED <<usersLC, rooms>>
           ELSE /\ usersLC' = r.users
                /\ rooms' = r.rooms
                /\ out' = (IF u.partnerId # null
                           THEN {[from |-> s, to |-> u.partnerId, ev |-> "partner-left"]}
                           ELSE {})
                             \cup {[from |-> s, to |-> s, ev |-> "call-ended"]}
    /\ UNCHANGED <<varsBT, varsB2, varsRS, variant, nconn, nupd, waitingQueue>>

\* what a relay handler emits: if (!user || !user.partnerId) return; io.to(partnerId).emit
relayLC(users, s, ev) ==
    IF s \in DOMAIN users /\ users[s].partnerId # null
    THEN {[from |-> s, to |-> users[s].partnerId, ev |-> ev]}
    ELSE {}

\* socket.on('webrtc-offer' | 'webrtc-answer' | 'ice-candidate')
RelayLC(s) ==
    /\ variant = "LC"
    /\ s \in DOMAIN usersLC
    /\ \E ev \in RelayEvents : out' = relayLC(usersLC, s, ev)
    /\ UNCHANGED <<varsBT, varsB2, varsRS, variant, nconn, nupd, varsLC>>

\* cleanupUser(socketId): [users, rooms, queue]
cleanupUser(users, rms, queue, socketId) ==
    IF socketId \in DOMAIN users
    THEN LET r == IF users[socketId].roomId # null
                  THEN endRoom(users, rms, users[socketId].roomId)
                  ELSE [users |-> users, rooms |-> rms]
         IN  [users |-> MapDelete(r.users, socketId), rooms |-> r.rooms,
              queue |-> filterOut(queue, socketId)]
    ELSE [users |-> users, rooms |-> rms, queue |-> queue]

\* socket.on('disconnect')
DisconnectLC(s) ==
    /\ variant = "LC"
    /\ s \in DOMAIN usersLC
    /\ LET r == cleanupUser(usersLC, rooms, waitingQueue, s)
       IN  /\ usersLC' = r.users
           /\ rooms' = r.rooms
           /\ waitingQueue' = r.queue
    /\ out' = IF usersLC[s].partnerId # null
              THEN {[from |-> s, to |-> usersLC[s].partnerId, ev |-> "partner-left"]}
              ELSE {}
    /\ UNCHANGED <<varsBT, varsB2, varsRS, variant, nconn, nupd>>

\* io.sockets.sockets.get(socketId)?.connected: see connectedBT
connectedLC(users, id) == id \in DOMAIN users

\* the users the cleanup interval removes: stale, not in a call, socket gone
staleLC(users) == {id \in DOMAIN users : ~users[id].inCall /\ ~connectedLC(users, id)}

RECURSIVE cleanupAll(_, _, _, _)
cleanupAll(users, rms, queue, ids) ==
    IF ids = {} THEN [users |-> users, rooms |-> rms, queue |-> queue]
    ELSE LET id == CHOOSE x \in ids : \A y \in ids : IdxOf(x) <= IdxOf(y)
             r == cleanupUser(users, rms, queue, id)
         IN  cleanupAll(r.users, r.rooms, r.queue, ids \ {id})

\* setInterval(..., 5 * 60 * 1000): cleanup of stale users and of the queue
SweepLC ==
    /\ variant = "LC"
    /\ LET r == cleanupAll(usersLC, rooms, waitingQueue, staleLC(usersLC))
       IN  /\ usersLC' = r.users
           /\ rooms' = r.rooms
           /\ waitingQueue' = SelectSeq(r.queue, LAMBDA x : x \in DOMAIN r.users)
    /\ out' = {}
    /\ UNCHANGED <<varsBT, varsB2, varsRS, variant, nconn, nupd>>

InitLC ==
    /\ usersLC = << >>
    /\ waitingQueue = << >>
    /\ rooms = << >>

NextLC ==
    \/ ConnectLC
    \/ \E s \in Ids : FindMatchLC(s)
    \/ \E s \in Ids : CancelSearchLC(s)
    \/ \E s \in Ids : NextPartnerLC(s)
    \/ \E s \in Ids : EndCallLC(s)
    \/ \E s \in Ids : RelayLC(s)
    \/ \E s \in Ids : DisconnectLC(s)
    \/ SweepLC

\* ========================================================================
\* BrownTV 2.0, src/unnamed/part_000
\* ========================================================================
QueueNamesB2 == {"all", "male", "female", "random", "instant"}

\* gems of a new user
InitialGemsB2 == 10

\* blockedUsers: the Map is read by matchUsers and written nowhere in part_000
blockedUsersB2 == [id \in Ids |-> {}]

NewUserB2(region) ==
    [gender |-> null, ageGroup |-> null, lookingFor |-> "all", regionFilter |-> "all",
     region |-> region, interests |-> {}, requireCommonInterests |-> FALSE,
     gems |-> InitialGemsB2, inCall |-> FALSE, partnerId |-> null, searching |-> FALSE,
     matchPreference |-> "all", callStartTime |-> null]

\* matchUsers(user1, user2); id1, id2 are user1.id, user2.id
matchUsers(user1, id1, user2, id2) ==
    /\ ~(user1.gender # null /\ user2.lookingFor # "all"
            /\ user2.lookingFor # user1.gender)
    /\ ~(user2.gender # null /\ user1.lookingFor # "all"
            /\ user1.lookingFor # user2.gender)
    /\ ~(user1.regionFilter # null /\ user1.regionFilter # "all"
            /\ user1.regionFilter # user2.region)
    /\ ~(user2.regionFilter # null /\ user2.regionFilter # "all"
            /\ user2.regionFilter # user1.region)
    /\ ~(user1.ageGroup # null /\ user1.ageGroup # "all"
            /\ user1.ageGroup # user2.ageGroup)
    /\ ~(user2.ageGroup # null /\ user2.ageGroup # "all"
            /\ user2.ageGroup # user1.ageGroup)
    /\ ~(user1.interests \cap user2.interests = {} /\ user1.requireCommonInterests)
    /\ id2 \notin blockedUsersB2[id1]
    /\ id1 \notin blockedUsersB2[id2]

removeFromAllQueues(queues, userId) ==
    [q \in DOMAIN queues |-> spliceFirst(queues[q], userId)]

CandidateOkB2(users, userId, matchId) ==
    /\ matchId # userId
    /\ matchId \in DOMAIN users
    /\ ~users[matchId].inCall
    /\ matchUsers(users[userId], userId, users[matchId], matchId)

\* findBestMatch(userId): [threw, matchId, queues]; threw when waitingQueues[queueType]
\* is undefined and queue.length is read
findBestMatch(users, queues, userId) ==
    LET queueType == users[userId].matchPreference
        i == FirstIdx(queues[queueType], LAMBDA m : CandidateOkB2(users, userId, m))
        j == FirstIdx(queues["all"], LAMBDA m : CandidateOkB2(users, userId, m))
    IN  IF userId \notin DOMAIN users
        THEN [threw |-> FALSE, matchId |-> null, queues |-> queues]
        ELSE IF queueType \notin DOMAIN queues
        THEN [threw |-> TRUE, matchId |-> null, queues |-> queues]
        ELSE IF i > 0
        THEN [threw |-> FALSE, matchId |-> queues[queueType][i],
              queues |-> [queues EXCEPT ![queueType] = spliceAt(queues[queueType], i)]]
        ELSE IF queueType # "all" /\ j > 0
        THEN [threw |-> FALSE, matchId |-> queues["all"][j],
              queues |-> [queues EXCEPT !["all"] = spliceAt(queues["all"], j)]]
        ELSE [threw |-> FALSE, matchId |-> null, queues |-> queues]

\* addToWaitingQueue(userId, user): [users, queues]
addToWaitingQueue(users, queues, userId) ==
    LET q0 == removeFromAllQueues(queues, userId)
        mp == users[userId].matchPreference
        target == IF mp \in DOMAIN queues THEN mp ELSE "all"
    IN  [users |-> [users EXCEPT ![userId].searching = TRUE],
         queues |-> [q0 EXCEPT ![target] = Append(@, userId)]]

\* Variant of createMatch that leaves userId2.searching as it was
createMatchB2_keepSearching(users, queues, userId1, userId2) ==
    IF userId1 \notin DOMAIN users \/ userId2 \notin DOMAIN users
    THEN [ok |-> FALSE, users |-> users, queues |-> queues]
    ELSE [ok |-> TRUE,
          users |-> [users EXCEPT ![userId1].inCall = TRUE, ![userId1].partnerId = userId2,
                                  ![userId1].searching = FALSE,
                                  ![userId1].callStartTime = "set",
                                  ![userId2].inCall = TRUE, ![userId2].partnerId = userId1,
                                  ![userId2].callStartTime = "set"],
          queues |-> removeFromAllQueues(removeFromAllQueues(queues, userId1), userId2)]

\* createMatch(userId1, userId2): [ok, users, queues]
createMatchB2(users, queues, userId1, userId2) ==
    IF userId1 \notin DOMAIN users \/ userId2 \notin DOMAIN users
    THEN [ok |-> FALSE, users |-> users, queues |-> queues]
    ELSE LET u1 == [users EXCEPT ![userId1].inCall = TRUE, ![userId1].partnerId = userId2,
                                 ![userId1].searching = FALSE,
                                 ![userId1].callStartTime = "set"]
             u2 == [u1 EXCEPT ![userId2].inCall = TRUE, ![userId2].partnerId = userId1,
                              ![userId2].searching = FALSE,
                              ![userId2].callStartTime = "set"]
         IN  [ok |-> TRUE, users |-> u2,
              queues |-> removeFromAllQueues(removeFromAllQueues(queues, userId1), userId2)]

\* Variant of the two match-found emits that marks both sides as initiator
MatchFoundOut_bothInitiators(s, matchId) ==
    {[from |-> s, to |-> s, ev |-> "match-found", partner |-> matchId,
      isInitiator |-> TRUE],
     [from |-> s, to |-> matchId, ev |-> "match-found", partner |-> s,
      isInitiator |-> TRUE]}

\* the two match-found emits after createMatch(s, matchId)
MatchFoundOut(s, matchId) ==
    {[from |-> s, to |-> s, ev |-> "match-found", partner |-> matchId,
      isInitiator |-> TRUE],
     [from |-> s, to |-> matchId, ev |-> "match-found", partner |-> s,
      isInitiator |-> FALSE]}

\* io.on('connection')
ConnectB2 ==
    /\ variant = "B2" /\ ~crashed
    /\ nconn < MaxUsers
    /\ \E region \in Regions :
         usersB2' = MapSet(usersB2, IdSeq[nconn + 1], NewUserB2(region))
    /\ nconn' = nconn + 1
    /\ out' = {[from |-> IdSeq[nconn + 1], to |-> IdSeq[nconn + 1], ev |-> "init"]}
    /\ UNCHANGED <<varsBT, varsLC, varsRS, variant, nupd, waitingQueuesB2, crashed>>

\* the payloads of update-profile that the model sends: one field each
UpdateFieldsB2 ==
    {<<"gender", "male">>, <<"gender", "female">>,
     <<"lookingFor", "male">>, <<"lookingFor", "female">>,
     <<"age", 20>>, <<"regionFilter", "asia">>, <<"interests", {"music"}>>,
     <<"matchPreference", "male">>}

\* data.age -> ageGroup
ageGroupOf(age) ==
    IF age >= 18 /\ age <= 24 THEN "18-24"
    ELSE IF age <= 34 THEN "25-34"
    ELSE IF age <= 44 THEN "35-44" ELSE "45+"

updateProfileB2(u, f) ==
    IF f[1] = "gender" THEN [u EXCEPT !.gender = f[2]]
    ELSE IF f[1] = "age" THEN [u EXCEPT !.ageGroup = ageGroupOf(f[2])]
    ELSE IF f[1] = "lookingFor" THEN [u EXCEPT !.lookingFor = f[2]]
    ELSE IF f[1] = "regionFilter" THEN [u EXCEPT !.regionFilter = f[2]]
    ELSE IF f[1] = "interests" THEN [u EXCEPT !.interests = f[2]]
    ELSE IF f[1] = "matchPreference" THEN [u EXCEPT !.matchPreference = f[2]]
    ELSE u

\* socket.on('update-profile')
UpdateProfileB2(s) ==
    /\ variant = "B2" /\ ~crashed
    /\ s \in DOMAIN usersB2
    /\ nupd < MaxUpdates
    /\ \E f \in UpdateFieldsB2 :
         usersB2' = [usersB2 EXCEPT ![s] = updateProfileB2(@, f)]
    /\ nupd' = nupd + 1
    /\ out' = {[from |-> s, to |-> s, ev |-> "profile-updated"]}
    /\ UNCHANGED <<varsBT, varsLC, varsRS, variant, nconn, waitingQueuesB2, crashed>>

\* the filters of filtered-search that the model sends: one field each
FilterFieldsB2 ==
    {<<"gender", "female">>, <<"ageGroup", "18-24">>, <<"requireCommonInterests", TRUE>>}

filteredSearchB2(u, f) ==
    IF f[1] = "gender" THEN [u EXCEPT !.lookingFor = f[2]]
    ELSE IF f[1] = "ageGroup" THEN [u EXCEPT !.ageGroup = f[2]]
    ELSE IF f[1] = "region" THEN [u EXCEPT !.regionFilter = f[2]]
    ELSE IF f[1] = "interests" THEN [u EXCEPT !.interests = f[2]]
    ELSE IF f[1] = "requireCommonInterests"
    THEN [u EXCEPT !.requireCommonInterests = f[2]]
    ELSE u

\* socket.on('filtered-search'): writes the filters, then emits 'find-match' to the
\* client (socket.emit sends to the client; the server's own handler does not run)
FilteredSearchB2(s) ==
    /\ variant = "B2" /\ ~crashed
    /\ s \in DOMAIN usersB2
    /\ nupd < MaxUpdates
    /\ \E f \in FilterFieldsB2 :
         usersB2' = [usersB2 EXCEPT ![s] = filteredSearchB2(@, f)]
    /\ nupd' = nupd + 1
    /\ out' = {[from |-> s, to |-> s, ev |-> "find-match", preference |-> "filtered"]}
    /\ UNCHANGED <<varsBT, varsLC, varsRS, variant, nconn, waitingQueuesB2, crashed>>

\* socket.on('set-language-practice')
SetLanguagePracticeB2(s) ==
    /\ variant = "B2" /\ ~crashed
    /\ s \in DOMAIN usersB2
    /\ nupd < MaxUpdates
    /\ usersB2' = [usersB2 EXCEPT ![s].matchPreference = "language"]
    /\ nupd' = nupd + 1
    /\ out' = {[from |-> s, to |-> s, ev |-> "language-mode-activated"]}
    /\ UNCHANGED <<varsBT, varsLC, varsRS, variant, nconn, waitingQueuesB2, crashed>>

\* data.preference of find-match: absent, a queue name, or what the client sends
\* back after filtered-search
PreferenceInputs == {undefined, "random", "filtered"}

\* socket.on('find-match')
FindMatchB2(s) ==
    /\ variant = "B2" /\ ~crashed
    /\ s \in DOMAIN usersB2
    /\ \E preference \in PreferenceInputs :
        IF usersB2[s].inCall \/ usersB2[s].searching
        THEN /\ out' = {}
             /\ UNCHANGED <<varsB2, nupd>>
        ELSE LET users1 == IF preference # undefined
                           THEN [usersB2 EXCEPT ![s].matchPreference = preference]
                           ELSE usersB2
                 found == findBestMatch(users1, waitingQueuesB2, s)
                 made == createMatchB2(users1, found.queues, s, found.matchId)
                 added == addToWaitingQueue(users1, found.queues, s)
             IN  /\ preference # undefined => nupd < MaxUpdates
                 /\ nupd' = IF preference # undefined THEN nupd + 1 ELSE nupd
                 /\ IF found.threw
                    THEN /\ usersB2' = users1
                         /\ crashed' = TRUE
                         /\ out' = {}
                         /\ UNCHANGED waitingQueuesB2
                    ELSE IF found.matchId # null
                    THEN /\ usersB2' = IF made.ok THEN made.users ELSE users1
                         /\ waitingQueuesB2' = IF made.ok THEN made.queues ELSE found.queues
                         /\ out' = IF made.ok THEN MatchFoundOut(s, found.matchId) ELSE {}
                         /\ UNCHANGED crashed
                    ELSE /\ usersB2' = added.users
                         /\ waitingQueuesB2' = added.queues
                         /\ out' = {[from |-> s, to |-> s, ev |-> "searching"]}
                         /\ UNCHANGED crashed
    /\ UNCHANGED <<varsBT, varsLC, varsRS, variant, nconn>>

\* availableUsers of instant-connect
availableUsersB2(users, s) ==
    {id \in DOMAIN users : id # s /\ ~users[id].inCall /\ ~users[id].searching}

\* socket.on('instant-connect'); Math.random picks among the available users
InstantConnectB2(s) ==
    /\ variant = "B2" /\ ~crashed
    /\ s \in DOMAIN usersB2
    /\ IF usersB2[s].inCall \/ usersB2[s].searching
       THEN /\ out' = {}
            /\ UNCHANGED <<varsB2, nupd>>
       ELSE IF usersB2[s].gems > 0
       THEN LET users1 == [usersB2 EXCEPT ![s].gems = @ - 1]
            IN  /\ nupd < MaxUpdates
                /\ nupd' = nupd + 1
                /\ IF availableUsersB2(users1, s) # {}
                   THEN \E matchId \in availableUsersB2(users1, s) :
                          LET made == createMatchB2(users1, waitingQueuesB2, s, matchId)
                          IN  /\ usersB2' = IF made.ok THEN made.users ELSE users1
                              /\ waitingQueuesB2' =
                                    IF made.ok THEN made.queues ELSE waitingQueuesB2
                              /\ out' = IF made.ok THEN MatchFoundOut(s, matchId) ELSE {}
                   ELSE /\ usersB2' = users1
                        /\ out' = {[from |-> s, to |-> s, ev |-> "instant-failed"]}
                        /\ UNCHANGED waitingQueuesB2
                /\ UNCHANGED crashed
       ELSE /\ out' = {[from |-> s, to |-> s, ev |-> "insufficient-gems"]}
            /\ UNCHANGED <<varsB2, nupd>>
    /\ UNCHANGED <<varsBT, varsLC, varsRS, variant, nconn>>

\* the users the disconnect handler leaves behind
disconnectB2(users, s) ==
    LET p == users[s].partnerId
        u1 == IF p # null /\ p \in DOMAIN users
              THEN [users EXCEPT ![p].inCall = FALSE, ![p].partnerId = null]
              ELSE users
    IN  MapDelete(u1, s)

\* socket.on('disconnect')
DisconnectB2(s) ==
    /\ variant = "B2" /\ ~crashed
    /\ s \in DOMAIN usersB2
    /\ usersB2' = disconnectB2(usersB2, s)
    /\ waitingQueuesB2' = removeFromAllQueues(waitingQueuesB2, s)
    /\ out' = IF usersB2[s].partnerId # null /\ usersB2[s].partnerId \in DOMAIN usersB2
              THEN {[from |-> s, to |-> usersB2[s].partnerId,
                     ev |-> "partner-disconnected"]}
              ELSE {}
    /\ UNCHANGED <<varsBT, varsLC, varsRS, variant, nconn, nupd, crashed>>

\* Variant of the periodic cleanup that leaves the expired ids in the queues
SweepB2_keepQueued ==
    /\ variant = "B2" /\ ~crashed
    /\ \E expired \in SUBSET {id \in DOMAIN usersB2 : usersB2[id].searching} :
         /\ usersB2' = [id \in DOMAIN usersB2 |->
                           IF id \in expired
                           THEN [usersB2[id] EXCEPT !.searching = FALSE]
                           ELSE usersB2[id]]
         /\ out' = {[from |-> null, to |-> id, ev |-> "search-timeout"] : id \in expired}
    /\ UNCHANGED <<varsBT, varsLC, varsRS, variant, nconn, nupd, crashed, waitingQueuesB2>>

\* setInterval(..., 60000): periodic cleanup.  expired = the users whose
\* searchStartTime is more than 5 minutes back at this tick
SweepB2 ==
    /\ variant = "B2" /\ ~crashed
    /\ \E expired \in SUBSET {id \in DOMAIN usersB2 : usersB2[id].searching} :
         /\ usersB2' = [id \in DOMAIN usersB2 |->
                           IF id \in expired
                           THEN [usersB2[id] EXCEPT !.searching = FALSE]
                           ELSE usersB2[id]]
         /\ waitingQueuesB2' =
               [q \in DOMAIN waitingQueuesB2 |->
                   SelectSeq(waitingQueuesB2[q], LAMBDA x : x \notin expired)]
         /\ out' = {[from |-> null, to |-> id, ev |-> "search-timeout"] : id \in expired}
    /\ UNCHANGED <<varsBT, varsLC, varsRS, variant, nconn, nupd, crashed>>

InitB2 ==
    /\ usersB2 = << >>
    /\ waitingQueuesB2 = [q \in QueueNamesB2 |-> << >>]
    /\ crashed = FALSE

NextB2 ==
    \/ ConnectB2
    \/ \E s \in Ids : UpdateProfileB2(s)
    \/ \E s \in Ids : FilteredSearchB2(s)
    \/ \E s \in Ids : SetLanguagePracticeB2(s)
    \/ \E s \in Ids : FindMatchB2(s)
    \/ \E s \in Ids : InstantConnectB2(s)
    \/ \E s \in Ids : DisconnectB2(s)
    \/ SweepB2

\* ========================================================================
\* BrownTV 3.0, src/server.js
\* ========================================================================
\* The Redis client sends its commands over one connection, so the store runs them
\* in the order in which they were issued and the replies come back in that order:
\* a command takes effect when it is issued, and the async function that awaits it
\* resumes when every earlier reply has been taken (pending is a FIFO).
\* A hash value is kept in the form in which the code compares it: inCall as the
\* strings "true" / "false", an absent field as undefined.
QueueNamesRS == {"all", "male", "female", "random"}

\* connections opened in one behaviour of server.js
MaxUsersRS == 2
IdsRS == {IdSeq[i] : i \in 1..MaxUsersRS}
\* pending find-match timers in one state
MaxTimers == 1
\* update-profile, block-user, paying instant-connect and find-match events with a
\* gender filter, in one behaviour
MaxUpdatesRS == 2
\* async functions suspended on a Redis reply when a handler or timer starts one more
MaxPending == 1

\* gems of a new profile, and the price of instant-connect
InitialGemsRS == 50
InstantPriceRS == 10

NewProfileRS ==
    [gender |-> null, lookingFor |-> "all", gems |-> InitialGemsRS, blocked |-> {},
     isOnline |-> TRUE, inCall |-> FALSE, partnerId |-> null]

NoHash == [gender |-> undefined, lookingFor |-> undefined, inCall |-> undefined]

\* the fields of a profile that hSet('user:' + id, profile) writes and findMatch reads
hashOf(profile) ==
    [gender |-> profile.gender, lookingFor |-> profile.lookingFor,
     inCall |-> IF profile.inCall THEN "true" ELSE "false"]

\* a suspended async function: kind says where it resumes, a and b are the ids it
\* works for, k and i the position of a queue scan, ud the requester's hash,
\* cd the candidate's hash (the reply it waits for); waiting records, for the
\* findMatch a find-match timer started, whether a was in a queue when it fired
Task(kind, a, b, k, i, ud, cd) ==
    [kind |-> kind, a |-> a, b |-> b, k |-> k, i |-> i, ud |-> ud, cd |-> cd,
     waiting |-> FALSE]

\* the queues findMatch scans for userData, in order: findExactMatch,
\* findReverseMatch (only when looking for 'all' and a gender is stored), then the
\* four queues of findRandomMatch; "none" is the empty array of `|| []`
scanPlan(ud) ==
    LET preferredGender == IF ud.lookingFor \in {undefined, null} THEN "all"
                           ELSE ud.lookingFor
        exact == <<[phase |-> "exact",
                    q |-> IF preferredGender \in QueueNamesRS THEN preferredGender
                          ELSE "none"]>>
        reverse == IF preferredGender = "all" /\ ud.gender \notin {undefined, null}
                   THEN <<[phase |-> "reverse",
                           q |-> IF ud.gender \in QueueNamesRS THEN ud.gender
                                 ELSE "none"]>>
                   ELSE << >>
        random == <<[phase |-> "random", q |-> "all"], [phase |-> "random", q |-> "male"],
                    [phase |-> "random", q |-> "female"],
                    [phase |-> "random", q |-> "random"]>>
    IN  exact \o reverse \o random

planQueue(queues, plan, k) == IF plan[k].q = "none" THEN << >> ELSE queues[plan[k].q]

\* the for loops of findExactMatch / findReverseMatch / findRandomMatch from
\* position (k, i) on, up to the next hGetAll: the next entry that is not socketId.
\* k = 0 when all scans end without one (findMatch returns null)
RECURSIVE nextCandidate(_, _, _, _, _)
nextCandidate(queues, plan, socketId, k, i) ==
    IF k > Len(plan) THEN [k |-> 0, i |-> 0, candidateId |-> null]
    ELSE IF i > Len(planQueue(queues, plan, k))
    THEN nextCandidate(queues, plan, socketId, k + 1, 1)
    ELSE IF planQueue(queues, plan, k)[i] = socketId
    THEN nextCandidate(queues, plan, socketId, k, i + 1)
    ELSE [k |-> k, i |-> i, candidateId |-> planQueue(queues, plan, k)[i]]

\* Variant of the candidate test that takes only candidates stored as in a call
candidateAccepted_onlyInCall(phase, ud, cd) ==
    /\ cd.inCall = "true"
    /\ phase = "exact" =>
          LET candidatePref == IF cd.lookingFor \in {undefined, null} THEN "all"
                               ELSE cd.lookingFor
          IN  candidatePref = "all" \/ candidatePref = ud.gender

\* the test on candidateData after the hGetAll: TRUE when the scan returns candidateId
candidateAccepted(phase, ud, cd) ==
    /\ cd.inCall # "true"
    /\ phase = "exact" =>
          LET candidatePref == IF cd.lookingFor \in {undefined, null} THEN "all"
                               ELSE cd.lookingFor
          IN  candidatePref = "all" \/ candidatePref = ud.gender

\* the queue loop of addUserToQueue and removeUserFromAllQueues
removeUserFromAllQueues(queues, socketId) ==
    [q \in DOMAIN queues |-> spliceFirst(queues[q], socketId)]

\* Variant of addUserToQueue without the loop that removes the id first
addUserToQueue_noRemove(queues, socketId, userData) ==
    LET queueType == IF userData.lookingFor \in {undefined, null} THEN "all"
                     ELSE userData.lookingFor
        target == IF queueType \in DOMAIN queues THEN queueType ELSE "all"
    IN  [queues EXCEPT ![target] = Append(@, socketId)]

\* addUserToQueue: the queues after the push
addUserToQueue(queues, socketId, userData) ==
    LET queueType == IF userData.lookingFor \in {undefined, null} THEN "all"
                     ELSE userData.lookingFor
        target == IF queueType \in DOMAIN queues THEN queueType ELSE "all"
    IN  [removeUserFromAllQueues(queues, socketId) EXCEPT ![target] = Append(@, socketId)]

\* Variant of createMatch that does not look at the blocked lists
createMatchRS_ignoreBlocked(profiles, user1Id, user2Id) ==
    IF user1Id \notin DOMAIN profiles \/ user2Id \notin DOMAIN profiles
    THEN [ok |-> FALSE, profiles |-> profiles]
    ELSE IF profiles[user1Id].inCall \/ profiles[user2Id].inCall
    THEN [ok |-> FALSE, profiles |-> profiles]
    ELSE [ok |-> TRUE,
          profiles |-> [profiles EXCEPT ![user1Id].inCall = TRUE,
                                        ![user1Id].partnerId = user2Id,
                                        ![user2Id].inCall = TRUE,
                                        ![user2Id].partnerId = user1Id]]

\* createMatch up to its first await: [ok, profiles]
createMatchRS(profiles, user1Id, user2Id) ==
    IF user1Id \notin DOMAIN profiles \/ user2Id \notin DOMAIN profiles
    THEN [ok |-> FALSE, profiles |-> profiles]
    ELSE IF profiles[user1Id].inCall \/ profiles[user2Id].inCall
    THEN [ok |-> FALSE, profiles |-> profiles]
    ELSE IF user2Id \in profiles[user1Id].blocked \/ user1Id \in profiles[user2Id].blocked
    THEN [ok |-> FALSE, profiles |-> profiles]
    ELSE [ok |-> TRUE,
          profiles |-> [profiles EXCEPT ![user1Id].inCall = TRUE,
                                        ![user1Id].partnerId = user2Id,
                                        ![user2Id].inCall = TRUE,
                                        ![user2Id].partnerId = user1Id]]

\* the state after createMatch(user1Id, user2Id) has run to its first await:
\* the bind, user1Id out of the queues, del user:<user1Id> issued
startMatch(profiles, queues, store, tasks, user1Id, user2Id) ==
    LET made == createMatchRS(profiles, user1Id, user2Id)
    IN  IF made.ok
        THEN [ok |-> TRUE, profiles |-> made.profiles,
              queues |-> removeUserFromAllQueues(queues, user1Id),
              store |-> [store EXCEPT ![user1Id] = NoHash],
              tasks |-> Append(tasks, Task("match-remove2", user1Id, user2Id, 0, 0,
                                           NoHash, NoHash))]
        ELSE [ok |-> FALSE, profiles |-> profiles, queues |-> queues, store |-> store,
              tasks |-> tasks]

\* io.on('connection'); the replies it awaits only trigger the emit of 'init' and
\* the registration of the handlers, and the client sends nothing before 'init'
ConnectRS ==
    /\ variant = "RS"
    /\ nconn < MaxUsersRS
    /\ userProfiles' = MapSet(userProfiles, IdSeq[nconn + 1], NewProfileRS)
    /\ redis' = [redis EXCEPT ![IdSeq[nconn + 1]] = hashOf(NewProfileRS)]
    /\ connected' = connected \cup {IdSeq[nconn + 1]}
    /\ nconn' = nconn + 1
    /\ out' = {[from |-> IdSeq[nconn + 1], to |-> IdSeq[nconn + 1], ev |-> "init"]}
    /\ UNCHANGED <<varsBT, varsLC, varsB2, variant, nupd, waitingUsers, pending, timers,
                   deleteTimers>>

\* the objects update-profile is sent: one key each; inCall, partnerId and isOnline
\* are keys a client can send like any other
UpdateDataRS(s) ==
    {<<"gender", "male">>, <<"inCall", FALSE>>, <<"isOnline", FALSE>>}
        \cup {<<"partnerId", t>> : t \in IdsRS \ {s}}

\* Object.assign(profile, data)
objectAssign(profile, data) ==
    IF data[1] = "gender" THEN [profile EXCEPT !.gender = data[2]]
    ELSE IF data[1] = "lookingFor" THEN [profile EXCEPT !.lookingFor = data[2]]
    ELSE IF data[1] = "inCall" THEN [profile EXCEPT !.inCall = data[2]]
    ELSE IF data[1] = "isOnline" THEN [profile EXCEPT !.isOnline = data[2]]
    ELSE IF data[1] = "partnerId" THEN [profile EXCEPT !.partnerId = data[2]]
    ELSE profile

\* socket.on('update-profile'); the reply of hSet only triggers the emit
UpdateProfileRS(s) ==
    /\ variant = "RS"
    /\ s \in connected
    /\ IF s \notin DOMAIN userProfiles
       THEN /\ out' = {}
            /\ UNCHANGED <<nupd, userProfiles, redis>>
       ELSE /\ nupd < MaxUpdatesRS
            /\ nupd' = nupd + 1
            /\ \E data \in UpdateDataRS(s) :
                 /\ userProfiles' = [userProfiles EXCEPT ![s] = objectAssign(@, data)]
                 /\ redis' = [redis EXCEPT ![s] = hashOf(objectAssign(userProfiles[s], data))]
            /\ out' = {[from |-> s, to |-> s, ev |-> "profile-updated"]}
    /\ UNCHANGED <<varsBT, varsLC, varsB2, variant, nconn, waitingUsers, pending, timers,
                   deleteTimers, connected>>

\* filters.gender of find-match
FilterGenderInputs == {undefined, "female"}

\* socket.on('find-match'); the reply of hSet in addUserToQueue only triggers the emit
\* and setTimeout(..., 1000)
FindMatchRS(s) ==
    /\ variant = "RS"
    /\ s \in connected
    /\ \E gender \in FilterGenderInputs :
        IF s \notin DOMAIN userProfiles \/ userProfiles[s].inCall
        THEN /\ out' = {}
             /\ UNCHANGED <<nupd, userProfiles, waitingUsers, redis, timers>>
        ELSE LET profile == IF gender # undefined
                            THEN [userProfiles[s] EXCEPT !.lookingFor = gender]
                            ELSE userProfiles[s]
             IN  /\ Len(timers) < MaxTimers
                 /\ gender # undefined => nupd < MaxUpdatesRS
                 /\ nupd' = IF gender # undefined THEN nupd + 1 ELSE nupd
                 /\ userProfiles' = [userProfiles EXCEPT ![s] = profile]
                 /\ waitingUsers' = addUserToQueue(waitingUsers, s, profile)
                 /\ redis' = [redis EXCEPT ![s] = hashOf(profile)]
                 /\ timers' = Append(timers, [id |-> s, profile |-> "live"])
                 /\ out' = {[from |-> s, to |-> s, ev |-> "searching"]}
    /\ UNCHANGED <<varsBT, varsLC, varsB2, variant, nconn, pending, deleteTimers, connected>>

\* Variant of the loop of instant-connect without the test id !== userId
firstAvailableRS_anyProfile(profiles, userId) ==
    LET avail == {id \in DOMAIN profiles : ~profiles[id].inCall /\ profiles[id].isOnline}
    IN  IF avail = {} THEN null
        ELSE CHOOSE id \in avail : \A o \in avail : IdxOf(id) <= IdxOf(o)

\* the first other profile of userProfiles (insertion order) that instant-connect
\* takes, null when there is none
firstAvailableRS(profiles, userId) ==
    LET avail == {id \in DOMAIN profiles :
                     id # userId /\ ~profiles[id].inCall /\ profiles[id].isOnline}
    IN  IF avail = {} THEN null
        ELSE CHOOSE id \in avail : \A o \in avail : IdxOf(id) <= IdxOf(o)

\* socket.on('instant-connect') up to the first await of createMatch
InstantConnectRS(s) ==
    /\ variant = "RS"
    /\ s \in connected
    /\ IF s \notin DOMAIN userProfiles \/ userProfiles[s].gems < InstantPriceRS
       THEN /\ out' = {[from |-> s, to |-> s, ev |-> "instant-failed"]}
            /\ UNCHANGED <<nupd, userProfiles, waitingUsers, redis, pending>>
       ELSE LET profiles1 == [userProfiles EXCEPT ![s].gems = @ - InstantPriceRS]
                id == firstAvailableRS(profiles1, s)
                sm == startMatch(profiles1, waitingUsers, redis, pending, s, id)
            IN  /\ nupd < MaxUpdatesRS
                /\ Len(pending) < MaxPending
                /\ nupd' = nupd + 1
                /\ IF id # null
                   THEN /\ userProfiles' = sm.profiles
                        /\ waitingUsers' = sm.queues
                        /\ redis' = sm.store
                        /\ pending' = sm.tasks
                        /\ out' = {}
                   ELSE /\ userProfiles' = profiles1
                        /\ out' = {[from |-> s, to |-> s, ev |-> "instant-failed"]}
                        /\ UNCHANGED <<waitingUsers, redis, pending>>
    /\ UNCHANGED <<varsBT, varsLC, varsB2, variant, nconn, timers, deleteTimers, connected>>

\* socket.on('filtered-search'); the reply of hSet only triggers the emit
FilteredSearchRS(s) ==
    /\ variant = "RS"
    /\ s \in connected
    /\ IF s \notin DOMAIN userProfiles
       THEN /\ out' = {}
            /\ UNCHANGED <<waitingUsers, redis>>
       ELSE /\ waitingUsers' = addUserToQueue(waitingUsers, s, userProfiles[s])
            /\ redis' = [redis EXCEPT ![s] = hashOf(userProfiles[s])]
            /\ out' = {[from |-> s, to |-> s, ev |-> "searching-filtered"]}
    /\ UNCHANGED <<varsBT, varsLC, varsB2, variant, nconn, nupd, userProfiles, pending,
                   timers, deleteTimers, connected>>

\* the profiles after next-partner / end-call of s: both sides cleared
unbindRS(profiles, s) ==
    LET partnerId == profiles[s].partnerId
        p1 == [profiles EXCEPT ![s].inCall = FALSE, ![s].partnerId = null]
    IN  IF partnerId \in DOMAIN p1
        THEN [p1 EXCEPT ![partnerId].inCall = FALSE, ![partnerId].partnerId = null]
        ELSE p1

\* socket.on('next-partner'); the 500 ms timer emits 'find-match' to the client
NextPartnerRS(s) ==
    /\ variant = "RS"
    /\ s \in connected
    /\ IF s \notin DOMAIN userProfiles \/ userProfiles[s].partnerId = null
       THEN /\ out' = {}
            /\ UNCHANGED userProfiles
       ELSE /\ userProfiles' = unbindRS(userProfiles, s)
            /\ out' = {[from |-> s, to |-> s, ev |-> "ready-for-next"],
                       [from |-> s, to |-> s, ev |-> "find-match"]}
                      \cup IF userProfiles[s].partnerId \in DOMAIN userProfiles
                           THEN {[from |-> s, to |-> userProfiles[s].partnerId,
                                  ev |-> "partner-skipped"]}
                           ELSE {}
    /\ UNCHANGED <<varsBT, varsLC, varsB2, variant, nconn, nupd, waitingUsers, redis,
                   pending, timers, deleteTimers, connected>>

\* socket.on('end-call')
EndCallRS(s) ==
    /\ variant = "RS"
    /\ s \in connected
    /\ IF s \notin DOMAIN userProfiles \/ userProfiles[s].partnerId = null
       THEN /\ out' = {}
            /\ UNCHANGED userProfiles
       ELSE /\ userProfiles' = unbindRS(userProfiles, s)
            /\ out' = {[from |-> s, to |-> s, ev |-> "call-ended"]}
                      \cup IF userProfiles[s].partnerId \in DOMAIN userProfiles
                           THEN {[from |-> s, to |-> userProfiles[s].partnerId,
                                  ev |-> "call-ended"]}
                           ELSE {}
    /\ UNCHANGED <<varsBT, varsLC, varsB2, variant, nconn, nupd, waitingUsers, redis,
                   pending, timers, deleteTimers, connected>>

\* socket.on('webrtc-offer' / 'webrtc-answer' / 'ice-candidate'): what is emitted
relayRS(profiles, s, ev) ==
    IF s \in DOMAIN profiles /\ profiles[s].partnerId # null
    THEN {[from |-> s, to |-> profiles[s].partnerId, ev |-> ev]}
    ELSE {}

RelayRS(s) ==
    /\ variant = "RS"
    /\ s \in connected
    /\ \E ev \in RelayEvents : out' = relayRS(userProfiles, s, ev)
    /\ UNCHANGED <<varsBT, varsLC, varsB2, varsRS, variant, nconn, nupd>>

\* socket.on('block-user')
BlockUserRS(s) ==
    /\ variant = "RS"
    /\ s \in connected
    /\ IF s \notin DOMAIN userProfiles
       THEN /\ out' = {}
            /\ UNCHANGED <<nupd, userProfiles>>
       ELSE /\ nupd < MaxUpdatesRS
            /\ nupd' = nupd + 1
            /\ \E targetId \in IdsRS \ {s} :
                 userProfiles' = [userProfiles EXCEPT ![s].blocked = @ \cup {targetId}]
            /\ out' = {[from |-> s, to |-> s, ev |-> "user-blocked"]}
    /\ UNCHANGED <<varsBT, varsLC, varsB2, variant, nconn, waitingUsers, redis, pending,
                   timers, deleteTimers, connected>>

\* socket.on('disconnect'); the reply of del only triggers setTimeout(..., 60000)
DisconnectRS(s) ==
    /\ variant = "RS"
    /\ s \in connected
    /\ connected' = connected \ {s}
    /\ IF s \notin DOMAIN userProfiles
       THEN /\ out' = {}
            /\ UNCHANGED <<userProfiles, waitingUsers, redis, deleteTimers>>
       ELSE LET partnerId == userProfiles[s].partnerId
                p1 == [userProfiles EXCEPT ![s].isOnline = FALSE]
            IN  /\ userProfiles' =
                      IF partnerId # null /\ partnerId \in DOMAIN p1
                      THEN [p1 EXCEPT ![partnerId].inCall = FALSE,
                                      ![partnerId].partnerId = null]
                      ELSE p1
                /\ out' = IF partnerId # null /\ partnerId \in DOMAIN p1
                          THEN {[from |-> s, to |-> partnerId,
                                 ev |-> "partner-disconnected"]}
                          ELSE {}
                /\ waitingUsers' = removeUserFromAllQueues(waitingUsers, s)
                /\ redis' = [redis EXCEPT ![s] = NoHash]
                /\ deleteTimers' = Append(deleteTimers, s)
    /\ UNCHANGED <<varsBT, varsLC, varsB2, variant, nconn, nupd, pending, timers>>

\* findMatch from scan position (k, i) on: either the next hGetAll is issued
\* or findMatch returns null and the timer callback ends
continueScan(tasks, t, k, i) ==
    LET nc == nextCandidate(waitingUsers, scanPlan(t.ud), t.a, k, i)
    IN  IF nc.k = 0 THEN tasks
        ELSE Append(tasks, [Task("find-cand", t.a, nc.candidateId, nc.k, nc.i, t.ud,
                                 redis[nc.candidateId]) EXCEPT !.waiting = t.waiting])

\* The oldest Redis reply arrives and the async function that awaits it runs on to
\* its next await or to its end
ResumeRS ==
    /\ variant = "RS"
    /\ pending # << >>
    /\ LET t == Head(pending)
           rest == Tail(pending)
           plan == scanPlan(t.ud)
           spliced == [waitingUsers EXCEPT ![plan[t.k].q] = spliceAt(@, t.i)]
           sm == startMatch(userProfiles, spliced, redis, rest, t.a, t.b)
       IN  CASE t.kind = "find-self" ->
                 \* findMatch after hGetAll('user:' + socketId)
                 /\ pending' = continueScan(rest, t, 1, 1)
                 /\ out' = {}
                 /\ UNCHANGED <<userProfiles, waitingUsers, redis, timers, deleteTimers,
                                connected>>
             [] t.kind = "find-cand" ->
                 \* a scan after hGetAll('user:' + candidateId)
                 IF candidateAccepted(plan[t.k].phase, t.ud, t.cd)
                 THEN /\ userProfiles' = sm.profiles
                      /\ waitingUsers' = sm.queues
                      /\ redis' = sm.store
                      /\ pending' = sm.tasks
                      /\ out' = {}
                      /\ UNCHANGED <<timers, deleteTimers, connected>>
                 ELSE /\ pending' = continueScan(rest, t, t.k, t.i + 1)
                      /\ out' = {}
                      /\ UNCHANGED <<userProfiles, waitingUsers, redis, timers,
                                     deleteTimers, connected>>
             [] t.kind = "match-remove2" ->
                 \* createMatch: await removeUserFromAllQueues(user2Id)
                 /\ waitingUsers' = removeUserFromAllQueues(waitingUsers, t.b)
                 /\ redis' = [redis EXCEPT ![t.b] = NoHash]
                 /\ pending' = Append(rest, [t EXCEPT !.kind = "match-call1"])
                 /\ out' = {}
                 /\ UNCHANGED <<userProfiles, timers, deleteTimers, connected>>
             [] t.kind = "match-call1" ->
                 \* createCall: hSet user1Id
                 /\ redis' = [redis EXCEPT ![t.a].inCall = "true"]
                 /\ pending' = Append(rest, [t EXCEPT !.kind = "match-call2"])
                 /\ out' = {}
                 /\ UNCHANGED <<userProfiles, waitingUsers, timers, deleteTimers, connected>>
             [] t.kind = "match-call2" ->
                 \* createCall: hSet user2Id
                 /\ redis' = [redis EXCEPT ![t.b].inCall = "true"]
                 /\ pending' = Append(rest, [t EXCEPT !.kind = "match-notify"])
                 /\ out' = {}
                 /\ UNCHANGED <<userProfiles, waitingUsers, timers, deleteTimers, connected>>
             [] t.kind = "match-notify" ->
                 \* createMatch: the two match-found
                 /\ pending' = rest
                 /\ out' = MatchFoundOut(t.a, t.b)
                 /\ UNCHANGED <<userProfiles, waitingUsers, redis, timers, deleteTimers,
                                connected>>
    /\ UNCHANGED <<varsBT, varsLC, varsB2, variant, nconn, nupd>>

\* profile.inCall as the timer callback reads it: the closure keeps the profile
\* object, also when it is no longer in userProfiles
closureInCall(t) ==
    IF t.profile = "live" THEN userProfiles[t.id].inCall ELSE t.profile = "inCall"

\* the callback of setTimeout(..., 1000) in find-match, up to the await in findMatch.
\* Timers of equal delay fire in the order in which they were armed.
FindTimerRS ==
    /\ variant = "RS"
    /\ timers # << >>
    /\ Len(pending) < MaxPending
    /\ timers' = Tail(timers)
    /\ pending' = IF ~closureInCall(Head(timers))
                  THEN Append(pending,
                              [Task("find-self", Head(timers).id, null, 0, 0,
                                    redis[Head(timers).id], NoHash)
                                 EXCEPT !.waiting = \E q \in DOMAIN waitingUsers :
                                                       Head(timers).id \in Range(waitingUsers[q])])
                  ELSE pending
    /\ out' = {}
    /\ UNCHANGED <<varsBT, varsLC, varsB2, variant, nconn, nupd, userProfiles,
                   waitingUsers, redis, deleteTimers, connected>>

\* the callback of setTimeout(..., 60000) in disconnect.  The 1000 ms timers of the
\* same socket were armed earlier and have fired before it.
DeleteTimerRS ==
    /\ variant = "RS"
    /\ deleteTimers # << >>
    /\ \A i \in 1..Len(timers) : timers[i].id # Head(deleteTimers)
    /\ deleteTimers' = Tail(deleteTimers)
    /\ userProfiles' = MapDelete(userProfiles, Head(deleteTimers))
    /\ out' = {}
    /\ UNCHANGED <<varsBT, varsLC, varsB2, variant, nconn, nupd, waitingUsers, redis,
                   pending, timers, connected>>

\* what a closure over profile id holds once the sweep has deleted the profile
detached(profiles, id) == IF profiles[id].inCall THEN "inCall" ELSE "idle"

\* Variant of the sweep that deletes the old profiles and leaves their queue entries
SweepRS_keepQueued ==
    /\ variant = "RS"
    /\ \E old \in SUBSET {id \in DOMAIN userProfiles :
                             ~userProfiles[id].isOnline /\ id \in connected} :
         /\ userProfiles' = [id \in DOMAIN userProfiles \ old |-> userProfiles[id]]
         /\ redis' = [id \in DOMAIN redis |-> IF id \in old THEN NoHash ELSE redis[id]]
         /\ timers' = [i \in 1..Len(timers) |->
                          IF timers[i].id \in old /\ timers[i].profile = "live"
                          THEN [timers[i] EXCEPT !.profile = detached(userProfiles, timers[i].id)]
                          ELSE timers[i]]
    /\ out' = {}
    /\ UNCHANGED <<varsBT, varsLC, varsB2, variant, nconn, nupd, pending, deleteTimers,
                   connected, waitingUsers>>

\* setInterval(..., 60000): the sweep.  old = the offline profiles whose lastSeen is
\* more than 5 minutes back at this tick; the profile of a closed socket is deleted
\* by its 60 s timer before it gets that old
SweepRS ==
    /\ variant = "RS"
    /\ \E old \in SUBSET {id \in DOMAIN userProfiles :
                             ~userProfiles[id].isOnline /\ id \in connected} :
         /\ userProfiles' = [id \in DOMAIN userProfiles \ old |-> userProfiles[id]]
         /\ waitingUsers' = [q \in DOMAIN waitingUsers |->
                                SelectSeq(waitingUsers[q], LAMBDA x : x \notin old)]
         /\ redis' = [id \in DOMAIN redis |-> IF id \in old THEN NoHash ELSE redis[id]]
         /\ timers' = [i \in 1..Len(timers) |->
                          IF timers[i].id \in old /\ timers[i].profile = "live"
                          THEN [timers[i] EXCEPT !.profile = detached(userProfiles, timers[i].id)]
                          ELSE timers[i]]
    /\ out' = {}
    /\ UNCHANGED <<varsBT, varsLC, varsB2, variant, nconn, nupd, pending, deleteTimers,
                   connected>>

InitRS ==
    /\ userProfiles = << >>
    /\ waitingUsers = [q \in QueueNamesRS |-> << >>]
    /\ redis = [id \in Ids |-> NoHash]
    /\ pending = << >>
    /\ timers = << >>
    /\ deleteTimers = << >>
    /\ connected = {}

NextRS ==
    \/ ConnectRS
    \/ ResumeRS
    \/ FindTimerRS
    \/ DeleteTimerRS
    \/ SweepRS
    \/ \E s \in IdsRS : UpdateProfileRS(s)
    \/ \E s \in IdsRS : FindMatchRS(s)
    \/ \E s \in IdsRS : InstantConnectRS(s)
    \/ \E s \in IdsRS : FilteredSearchRS(s)
    \/ \E s \in IdsRS : NextPartnerRS(s)
    \/ \E s \in IdsRS : EndCallRS(s)
    \/ \E s \in IdsRS : RelayRS(s)
    \/ \E s \in IdsRS : BlockUserRS(s)
    \/ \E s \in IdsRS : DisconnectRS(s)

InitCommon ==
    /\ nconn = 0
    /\ nupd = 0
    /\ out = {}
    /\ InitBT
    /\ InitLC
    /\ InitB2
    /\ InitRS

InitOnlyBT == variant = "BT" /\ InitCommon
InitOnlyLC == variant = "LC" /\ InitCommon
InitOnlyB2 == variant = "B2" /\ InitCommon
InitOnlyRS == variant = "RS" /\ InitCommon

SpecBT == InitOnlyBT /\ [][NextBT]_vars
SpecLC == InitOnlyLC /\ [][NextLC]_vars
SpecB2 == InitOnlyB2 /\ [][NextB2]_vars
SpecRS == InitOnlyRS /\ [][NextRS]_vars

InitAll == variant \in {"BT", "LC", "B2", "RS"} /\ InitCommon
InitInMemory == variant \in {"BT", "LC", "B2"} /\ InitCommon
InitPart001 == variant \in {"BT", "LC"} /\ InitCommon

Next == NextBT \/ NextLC \/ NextB2 \/ NextRS
NextInMemory == NextBT \/ NextLC \/ NextB2
NextPart001 == NextBT \/ NextLC

\* all four servers
Spec == InitAll /\ [][Next]_vars
\* the three servers that keep their state in memory only
SpecInMemory == InitInMemory /\ [][NextInMemory]_vars
\* the two servers of src/unnamed/part_001
SpecPart001 == InitPart001 /\ [][NextPart001]_vars

\* the four servers when the clients send nothing but find-match: connections,
\* find-match events and, in server.js, the timers and Redis replies they cause
NextFindOnly ==
    \/ ConnectBT
    \/ ConnectLC
    \/ ConnectB2
    \/ ConnectRS
    \/ \E s \in Ids : FindMatchBT(s)
    \/ \E s \in Ids : FindMatchLC(s)
    \/ \E s \in Ids : FindMatchB2(s)
    \/ \E s \in IdsRS : FindMatchRS(s)
    \/ FindTimerRS
    \/ ResumeRS

SpecFindOnly == InitAll /\ [][NextFindOnly]_vars

\* the servers of src/unnamed/part_001 and src/server.js when the clients stay
\* connected and send nothing but find-match, with the periodic sweeps ticking
InitSearching == variant \in {"BT", "LC", "RS"} /\ InitCommon

NextSearching ==
    \/ ConnectBT
    \/ ConnectLC
    \/ ConnectRS
    \/ \E s \in Ids : FindMatchBT(s)
    \/ \E s \in Ids : FindMatchLC(s)
    \/ \E s \in IdsRS : FindMatchRS(s)
    \/ FindTimerRS
    \/ ResumeRS
    \/ SweepBT
    \/ SweepLC
    \/ SweepRS

\* setInterval and setTimeout callbacks run whenever they are due, and a Redis
\* reply resumes the function that awaits it
FairTimers ==
    /\ WF_vars(SweepBT)
    /\ WF_vars(SweepLC)
    /\ WF_vars(SweepRS)
    /\ WF_vars(FindTimerRS)
    /\ WF_vars(ResumeRS)

SpecSearchingFair == InitSearching /\ [][NextSearching]_vars /\ FairTimers

\* ---------------------------------------------------------------------------
\* chat-message handlers.  A text is a run of whitespace, a run of non-whitespace
\* characters and a run of whitespace, given by the three lengths; data.message
\* may also be missing (undefined).
\* ---------------------------------------------------------------------------
SliceLC == 1000
SliceBT == 500

Text(lead, body, trail) == [kind |-> "string", lead |-> lead, body |-> body, trail |-> trail]
Missing == [kind |-> undefined, lead |-> 0, body |-> 0, trail |-> 0]
TextLen(t) == t.lead + t.body + t.trail

BodyLengths == {0, 1, SliceBT - 1, SliceBT, SliceBT + 1, SliceLC, SliceLC + 1}
ChatInputs ==
    {Missing} \cup {Text(l, b, t) : l \in {0, 1}, b \in BodyLengths, t \in {0, 1}}

Least(a, b) == IF a < b THEN a ELSE b

\* String(x): the text itself, 'undefined' for a missing one
StringOf(m) == IF m.kind = undefined THEN Text(0, 9, 0) ELSE m

\* x || '' : '' for a missing or empty text
OrEmpty(m) == IF m.kind = undefined \/ TextLen(m) = 0 THEN Text(0, 0, 0) ELSE m

\* t.slice(0, n)
slice(t, n) ==
    LET lead == Least(t.lead, n)
        body == Least(t.body, n - lead)
    IN  Text(lead, body, Least(t.trail, n - lead - body))

\* t.trim()
trim(t) == IF t.body = 0 THEN Text(0, 0, 0) ELSE Text(0, t.body, 0)

ChatOut(s, partnerId, message) ==
    {[from |-> s, to |-> partnerId, ev |-> "chat-message", message |-> message]}

\* what the chat-message handler of LiveConnect emits for data.message = m
chatMessageLC(users, s, m) ==
    IF s \notin DOMAIN users \/ users[s].partnerId = null THEN {}
    ELSE LET message == trim(slice(StringOf(m), SliceLC))
         IN  IF TextLen(message) = 0 THEN {} ELSE ChatOut(s, users[s].partnerId, message)

\* what the chat-message handler of BrownTV emits for data.message = m
chatMessageBT(users, s, m) ==
    IF s \notin DOMAIN users \/ users[s].partnerId = null THEN {}
    ELSE LET msg == trim(slice(StringOf(OrEmpty(m)), SliceBT))
         IN  IF TextLen(msg) = 0 THEN {} ELSE ChatOut(s, users[s].partnerId, msg)

\* what the chat-message handler of server.js emits for data.message = m
chatMessageRS(profiles, s, m) ==
    IF s \notin DOMAIN profiles \/ profiles[s].partnerId = null THEN {}
    ELSE ChatOut(s, profiles[s].partnerId, m)

\* socket.on('chat-message'), LiveConnect
ChatMessageLC(s) ==
    /\ variant = "LC"
    /\ s \in DOMAIN usersLC
    /\ \E m \in ChatInputs : out' = chatMessageLC(usersLC, s, m)
    /\ UNCHANGED <<varsBT, varsLC, varsB2, varsRS, variant, nconn, nupd>>

\* socket.on('chat-message'), BrownTV
ChatMessageBT(s) ==
    /\ variant = "BT"
    /\ s \in DOMAIN usersBT
    /\ \E m \in ChatInputs : out' = chatMessageBT(usersBT, s, m)
    /\ UNCHANGED <<varsBT, varsLC, varsB2, varsRS, variant, nconn, nupd>>

\* socket.on('chat-message'), server.js
ChatMessageRS(s) ==
    /\ variant = "RS"
    /\ s \in connected
    /\ \E m \in ChatInputs : out' = chatMessageRS(userProfiles, s, m)
    /\ UNCHANGED <<varsBT, varsLC, varsB2, varsRS, variant, nconn, nupd>>

\* the servers that have a chat-message handler, with clients that connect, send
\* find-match and chat
NextChat ==
    \/ ConnectBT
    \/ ConnectLC
    \/ ConnectRS
    \/ \E s \in Ids : FindMatchBT(s)
    \/ \E s \in Ids : FindMatchLC(s)
    \/ \E s \in IdsRS : FindMatchRS(s)
    \/ FindTimerRS
    \/ ResumeRS
    \/ \E s \in Ids : ChatMessageBT(s)
    \/ \E s \in Ids : ChatMessageLC(s)
    \/ \E s \in IdsRS : ChatMessageRS(s)

SpecChat == InitSearching /\ [][NextChat]_vars

\* ========================================================================
\* Properties
\* ========================================================================
\* number of entries of the queues that hold id
Occurrences(queues, id) ==
    Cardinality({p \in UNION {{<<q, i>> : i \in 1..Len(queues[q])} : q \in DOMAIN queues} :
                    queues[p[1]][p[2]] = id})

\* inCall iff partnerId is set, and the partner exists and points back
PairingConsistent(users) ==
    \A a \in DOMAIN users :
        /\ users[a].inCall <=> users[a].partnerId # null
        /\ users[a].partnerId # null =>
              /\ users[a].partnerId \in DOMAIN users
              /\ users[users[a].partnerId].partnerId = a

\* C1: in the BrownTV server, after every handler, every session has inCall true
\* iff its partnerId is set, and a set partnerId names a session of users whose
\* partnerId points back.
C1_PairingConsistentBT == PairingConsistent(usersBT)

\* C1 witness: a bound pair next to a third session that is not in a call
C1_Witness ==
    \E a, c \in DOMAIN usersBT :
        /\ usersBT[a].inCall
        /\ usersBT[usersBT[a].partnerId].partnerId = a
        /\ c # a /\ c # usersBT[a].partnerId
        /\ ~usersBT[c].inCall

\* C2: in server.js every profile held in userProfiles has inCall true iff its
\* partnerId is set, and a set partnerId names a profile whose partnerId points
\* back.  Stated for the behaviours among those of the claim that hold no
\* update-profile, no paying instant-connect and no find-match with a gender
\* filter (nupd = 0).
C2_PairingConsistentRS == nupd = 0 => PairingConsistent(userProfiles)

\* a step leaves no session with a partnerId that a bind wrote over a set partnerId
BindsOnlyUnbound(old, new) ==
    \A x \in DOMAIN old \cap DOMAIN new :
        (/\ new[x].partnerId # null
         /\ new[x].partnerId # old[x].partnerId \/ (new[x].inCall /\ ~old[x].inCall))
            => old[x].partnerId = null

\* C3: at most one partner, in every server: a step that binds x (x.inCall
\* becomes true, or x.partnerId becomes a new id) finds x.partnerId unset.
C3_AtMostOnePartner ==
    [][/\ BindsOnlyUnbound(usersBT, usersBT')
       /\ BindsOnlyUnbound(usersLC, usersLC')
       /\ BindsOnlyUnbound(usersB2, usersB2')
       /\ BindsOnlyUnbound(userProfiles, userProfiles')]_vars

\* C4: in server.js a profile with inCall = true is in no waitingUsers queue.
\* Stated for the states in which no async function is suspended, that is after
\* the handlers of all events so far have run to their end.
C4_BoundNotQueuedRS ==
    pending = << >> =>
        \A a \in DOMAIN userProfiles :
            userProfiles[a].inCall => Occurrences(waitingUsers, a) = 0

\* the queue discipline of C5 for one server
QueueDiscipline(users, queues) ==
    /\ \A a \in DOMAIN users :
          /\ users[a].searching => Occurrences(queues, a) = 1
          /\ (~users[a].searching \/ users[a].inCall) => Occurrences(queues, a) = 0
    /\ \A q \in DOMAIN queues : \A i \in 1..Len(queues[q]) :
          /\ queues[q][i] \in DOMAIN users
          /\ users[queues[q][i]].searching
          /\ ~users[queues[q][i]].inCall

\* C5: in BrownTV 2.0, BrownTV and LiveConnect, after every handler: a searching
\* session is in exactly one queue, a session that is not searching or is in a
\* call is in no queue, and every queue entry is a session of users that is
\* searching and not in a call.
C5_QueueDiscipline ==
    /\ QueueDiscipline(usersB2, waitingQueuesB2)
    /\ QueueDiscipline(usersBT, waitingQueuesBT)
    /\ QueueDiscipline(usersLC, [q \in {"waitingQueue"} |-> waitingQueue])

\* C5 witness: BrownTV 2.0 with a bound pair and a third session waiting in a queue
C5_Witness ==
    \E a, c \in DOMAIN usersB2 :
        /\ usersB2[a].inCall
        /\ usersB2[c].searching
        /\ Occurrences(waitingQueuesB2, c) = 1

\* C6: in every server no session id is in two waiting queues or twice in one.
C6_QueueExclusive ==
    /\ \A id \in Ids : Occurrences(waitingQueuesBT, id) <= 1
    /\ \A id \in Ids : Count(waitingQueue, id) <= 1
    /\ \A id \in Ids : Occurrences(waitingQueuesB2, id) <= 1
    /\ \A id \in Ids : Occurrences(waitingUsers, id) <= 1

\* C6 witness: server.js, a session that waits in the 'female' queue after a
\* find-match with that filter has sent filtered-search and was queued again
C6_Witness ==
    \E r \in out :
        /\ r.ev = "searching-filtered"
        /\ Count(waitingUsers["female"], r.from) = 1
        /\ Len(waitingUsers["female"]) + Len(waitingUsers["all"]) = 2

\* what C7 asks of a relay handler run for s
RelaysToPartnerOnly(users, s) ==
    IF s \in DOMAIN users /\ users[s].inCall
    THEN \E b \in DOMAIN users :
            /\ b # s
            /\ users[s].partnerId = b
            /\ users[b].partnerId = s
            /\ Cardinality(out') = 1
            /\ \A r \in out' : r.from = s /\ r.to = b /\ r.ev \in RelayEvents
    ELSE out' = {}

\* C7: in both servers of part_001 a webrtc-offer, webrtc-answer or ice-candidate
\* of a session in a call is emitted once, to the session that is its partner and
\* has it as partner, and one of a session not in a call emits nothing.
C7_RelayToPartnerOnly ==
    [][\A s \in Ids :
          /\ RelayBT(s) => RelaysToPartnerOnly(usersBT, s)
          /\ RelayLC(s) => RelaysToPartnerOnly(usersLC, s)]_vars

\* C7 witness: BrownTV has relayed an offer between two bound sessions while a
\* third session, not in a call, is present
C7_Witness ==
    \E r \in out :
        /\ r.ev = "webrtc-offer"
        /\ r.from \in DOMAIN usersBT
        /\ usersBT[r.from].partnerId = r.to
        /\ \E c \in DOMAIN usersBT : ~usersBT[c].inCall

\* C8: in server.js update-profile changes neither inCall nor partnerId of the
\* requesting profile nor any queue.
C8_UpdateKeepsLifecycleRS ==
    [][\A s \in IdsRS :
          (UpdateProfileRS(s) /\ s \in DOMAIN userProfiles) =>
              /\ userProfiles'[s].inCall = userProfiles[s].inCall
              /\ userProfiles'[s].partnerId = userProfiles[s].partnerId
              /\ waitingUsers' = waitingUsers]_vars

\* C9: in BrownTV, when find-match binds requester A to candidate B, B.lookingFor
\* is 'all' or A.gender and A.lookingFor is 'all' or B.gender, on the values held
\* when the handler ends.
C9_FilterSymmetryBT ==
    \A r \in out :
        (r.ev = "match-found" /\ r.to # r.from) =>
            /\ usersBT[r.to].lookingFor \in {"all", usersBT[r.from].gender}
            /\ usersBT[r.from].lookingFor \in {"all", usersBT[r.to].gender}

\* C10: in server.js, while A waits in the 'female' queue with lookingFor =
\* 'female' and B has gender 'male' and lookingFor = 'all', no step binds A and B
\* to each other.
C10_FemaleFilterKeptRS ==
    [][\A a, b \in DOMAIN userProfiles :
          (/\ a # b
           /\ Count(waitingUsers["female"], a) = 1
           /\ userProfiles[a].lookingFor = "female"
           /\ userProfiles[b].gender = "male"
           /\ userProfiles[b].lookingFor = "all"
           /\ a \in DOMAIN userProfiles')
              => ~(userProfiles'[a].inCall /\ ~userProfiles[a].inCall
                      /\ userProfiles'[a].partnerId = b)]_vars

\* C11: in BrownTV 2.0, when find-match binds requester A to candidate B, the
\* compatibility test holds in both directions: matchUsers(A, B) and
\* matchUsers(B, A), on the records held when the handler ends.
C11_MatchUsersBothWaysB2 ==
    [][\A s \in Ids :
          (/\ FindMatchB2(s)
           /\ s \in DOMAIN usersB2
           /\ ~usersB2[s].inCall
           /\ usersB2'[s].inCall) =>
              LET b == usersB2'[s].partnerId
              IN  /\ matchUsers(usersB2'[s], s, usersB2'[b], b)
                  /\ matchUsers(usersB2'[b], b, usersB2'[s], s)]_vars

\* a session of an in-memory server that has sent find-match: it waits or is bound
SentFind(users, a) == users[a].searching \/ users[a].inCall

\* two sessions that have both sent find-match are bound to each other
BothSentBound(users) ==
    \A a, b \in DOMAIN users :
        (a # b /\ SentFind(users, a) /\ SentFind(users, b)) =>
            /\ users[a].inCall /\ users[a].partnerId = b
            /\ users[b].inCall /\ users[b].partnerId = a

\* a session of server.js that has sent find-match: it is queued or bound
SentFindRS(a) == userProfiles[a].inCall \/ Occurrences(waitingUsers, a) > 0

\* C12: with two connections in all, default preferences (nupd = 0) and nothing
\* sent but find-match, two sessions that have both sent find-match are bound to
\* each other: at the end of the handler in LiveConnect, BrownTV and BrownTV 2.0,
\* and in server.js once no find-match timer and no Redis reply is outstanding.
C12_BothFindersBound ==
    (nconn = 2 /\ nupd = 0) =>
        /\ BothSentBound(usersBT)
        /\ BothSentBound(usersLC)
        /\ BothSentBound(usersB2)
        /\ (timers = << >> /\ pending = << >>) =>
              \A a, b \in DOMAIN userProfiles :
                  (a # b /\ SentFindRS(a) /\ SentFindRS(b)) =>
                      /\ userProfiles[a].inCall /\ userProfiles[a].partnerId = b
                      /\ userProfiles[b].inCall /\ userProfiles[b].partnerId = a

\* C12 witness: server.js, two sessions with default preferences bound to each
\* other after the find-match timers and the Redis replies have all run
C12_Witness ==
    /\ variant = "RS" /\ nconn = 2 /\ nupd = 0
    /\ timers = << >> /\ pending = << >>
    /\ \E a, b \in DOMAIN userProfiles :
          /\ a # b
          /\ userProfiles[a].inCall /\ userProfiles[a].partnerId = b
          /\ userProfiles[b].inCall /\ userProfiles[b].partnerId = a

\* the match-found events among the emitted events o
MatchFoundOf(o) == {r \in o : r.ev = "match-found"}

\* one match-found to each side, isInitiator true to a and false to b
InitiatorPair(a, b) ==
    {[from |-> a, to |-> a, ev |-> "match-found", partner |-> b, isInitiator |-> TRUE],
     [from |-> a, to |-> b, ev |-> "match-found", partner |-> a, isInitiator |-> FALSE]}

\* the sessions a step binds
NewlyBound(old, new) == {x \in DOMAIN old \cap DOMAIN new : ~old[x].inCall /\ new[x].inCall}

\* the suspended createMatch calls of server.js
MatchTasks(tasks) ==
    Cardinality({i \in 1..Len(tasks) :
                    tasks[i].kind \in {"match-remove2", "match-call1", "match-call2",
                                       "match-notify"}})

\* C13 for a server that binds and notifies in one handler: a bind of x happens in
\* the find-match (or instant-connect) handler of a requester a, which then emits
\* exactly the pair of match-found with a as initiator; after find-match the other
\* side was waiting; and match-found is emitted by a bind only
NotifiedOnBind(users, users2, o, found, instant) ==
    /\ \A x \in NewlyBound(users, users2) :
          \E a \in {x, users2[x].partnerId} :
              /\ a \in NewlyBound(users, users2)
              /\ found[a] \/ instant[a]
              /\ MatchFoundOf(o) = InitiatorPair(a, users2[a].partnerId)
              /\ found[a] => users[users2[a].partnerId].searching
    /\ (MatchFoundOf(o) # {} /\ variant # "RS") =>
          \/ NewlyBound(users, users2) # {}
          \/ users2 = users

\* C13: every bind emits one match-found to each of the two bound sessions, with
\* isInitiator true to the session whose request ran the bind and false to the
\* other.  In server.js the bind starts one createMatch continuation for
\* (requester, candidate), each continuation ends with exactly that pair of
\* events, and match-found is emitted nowhere else.
C13_InitiatorIsRequester ==
    [][/\ variant = "BT" =>
             NotifiedOnBind(usersBT, usersBT', out', [a \in Ids |-> FindMatchBT(a)],
                            [a \in Ids |-> FALSE])
       /\ variant = "LC" =>
             NotifiedOnBind(usersLC, usersLC', out', [a \in Ids |-> FindMatchLC(a)],
                            [a \in Ids |-> FALSE])
       /\ variant = "B2" =>
             NotifiedOnBind(usersB2, usersB2', out', [a \in Ids |-> FindMatchB2(a)],
                            [a \in Ids |-> InstantConnectB2(a)])
       /\ variant = "RS" =>
             LET notify == /\ pending # << >>
                           /\ Head(pending).kind = "match-notify"
                           /\ ResumeRS
                 bound == NewlyBound(userProfiles, userProfiles')
             IN  /\ \A x \in bound :
                       \E a \in {x, userProfiles'[x].partnerId} :
                           /\ \/ InstantConnectRS(a)
                              \/ /\ pending # << >>
                                 /\ Head(pending).kind = "find-cand"
                                 /\ Head(pending).a = a
                                 /\ ResumeRS
                           /\ pending' # << >>
                           /\ pending'[Len(pending')].kind = "match-remove2"
                           /\ pending'[Len(pending')].a = a
                           /\ pending'[Len(pending')].b = userProfiles'[a].partnerId
                           /\ userProfiles'[userProfiles'[a].partnerId].partnerId = a
                 /\ MatchTasks(pending') =
                       MatchTasks(pending) + (IF bound # {} THEN 1 ELSE 0)
                                           - (IF notify THEN 1 ELSE 0)
                 /\ notify => MatchFoundOf(out') =
                                 InitiatorPair(Head(pending).a, Head(pending).b)
                 /\ MatchFoundOf(out') # {} => notify]_vars

\* C13 witness: server.js has emitted the two match-found of a bind that the
\* find-match timer of the initiator made, and the pair is still bound
C13_Witness ==
    /\ variant = "RS"
    /\ nupd = 0
    /\ \E a, b \in DOMAIN userProfiles :
          /\ out = InitiatorPair(a, b)
          /\ userProfiles[a].partnerId = b
          /\ userProfiles[b].partnerId = a

\* what C14 asks of a next-partner handler run for s, bound to b, in a server with
\* a searching flag: both idle, b told, s searching and queued once, b not queued
SkipRequeues(users, users2, queues2, o, s) ==
    LET b == users[s].partnerId
    IN  /\ ~users2[s].inCall /\ users2[s].partnerId = null
        /\ ~users2[b].inCall /\ users2[b].partnerId = null
        /\ \E r \in o : r.to = b /\ r.ev \in {"partner-left", "partner-skipped"}
        /\ users2[s].searching
        /\ Occurrences(queues2, s) = 1
        /\ Occurrences(queues2, b) = 0

\* C14: when A, bound to B, sends next-partner, the handler leaves both unbound,
\* notifies B, leaves A searching in a queue and B in none (BrownTV, LiveConnect
\* and server.js, where searching is queue membership).
C14_SkipRequeuesSkipper ==
    [][\A s \in Ids :
          /\ (/\ NextPartnerBT(s)
              /\ usersBT[s].inCall
              /\ usersBT[s].partnerId \in DOMAIN usersBT) =>
                 SkipRequeues(usersBT, usersBT', waitingQueuesBT', out', s)
          /\ (/\ NextPartnerLC(s)
              /\ usersLC[s].inCall
              /\ usersLC[s].partnerId \in DOMAIN usersLC) =>
                 SkipRequeues(usersLC, usersLC', [q \in {"waitingQueue"} |-> waitingQueue'],
                              out', s)
          /\ (/\ NextPartnerRS(s)
              /\ s \in DOMAIN userProfiles
              /\ userProfiles[s].inCall
              /\ userProfiles[s].partnerId \in DOMAIN userProfiles) =>
                 LET b == userProfiles[s].partnerId
                 IN  /\ ~userProfiles'[s].inCall /\ userProfiles'[s].partnerId = null
                     /\ ~userProfiles'[b].inCall /\ userProfiles'[b].partnerId = null
                     /\ \E r \in out' : r.to = b /\ r.ev = "partner-skipped"
                     /\ Occurrences(waitingUsers', s) = 1
                     /\ Occurrences(waitingUsers', b) = 0]_vars

\* the events of the last handler are those of an end-call of s that unbound s and b
EndedPair(o, s, b) ==
    /\ [from |-> s, to |-> s, ev |-> "call-ended"] \in o
    /\ \E r \in o : r.from = s /\ r.to = b /\ r.ev = "partner-left"
    /\ s # b

\* C15: in BrownTV and LiveConnect, an end-call sent by either former partner
\* right after the end-call that unbound them changes no session and emits
\* nothing.
C15_EndCallIdempotent ==
    [][\A s, b \in Ids : \A x \in {s, b} :
          /\ (EndedPair(out, s, b) /\ EndCallBT(x)) =>
                 (usersBT' = usersBT /\ out' = {})
          /\ (EndedPair(out, s, b) /\ EndCallLC(x)) =>
                 (usersLC' = usersLC /\ out' = {})]_vars

\* C16: in BrownTV 2.0 a sweep tick takes every session it finds expired out of
\* every queue, sets searching = false and sends it search-timeout; findBestMatch
\* then returns it for no requester, and it gets back into a queue or to
\* searching = true only by its own find-match.
C16_SearchTimeoutB2 ==
    [][/\ SweepB2 =>
             \A id \in DOMAIN usersB2 :
                 (usersB2[id].searching /\ ~usersB2'[id].searching) =>
                     /\ Occurrences(waitingQueuesB2', id) = 0
                     /\ \E r \in out' : r.to = id /\ r.ev = "search-timeout"
       /\ \A id \in DOMAIN usersB2' :
             ~usersB2'[id].searching =>
                 \A u \in DOMAIN usersB2' :
                     findBestMatch(usersB2', waitingQueuesB2', u).matchId # id
       /\ \A id \in DOMAIN usersB2 \cap DOMAIN usersB2' :
             (/\ ~usersB2[id].searching
              /\ usersB2'[id].searching \/ Occurrences(waitingQueuesB2', id) > 0) =>
                 FindMatchB2(id)]_vars

\* C16 witness: a sweep tick has timed out one searching session of BrownTV 2.0
\* and left another one, not yet expired, searching in its queue
C16_Witness ==
    \E id, other \in DOMAIN usersB2 :
        /\ [from |-> null, to |-> id, ev |-> "search-timeout"] \in out
        /\ ~usersB2[id].searching
        /\ Occurrences(waitingQueuesB2, id) = 0
        /\ usersB2[other].searching
        /\ Occurrences(waitingQueuesB2, other) = 1

\* session s is Searching: searching is set (BrownTV), or it waits in the queue
\* (LiveConnect), or it waits in a queue of the matchmaker (server.js)
SearchingSession(s) ==
    \/ s \in DOMAIN usersBT /\ usersBT[s].searching
    \/ \E i \in 1..Len(waitingQueue) : waitingQueue[i] = s
    \/ s \in DOMAIN userProfiles /\ Occurrences(waitingUsers, s) > 0

\* C17: in LiveConnect, BrownTV and server.js a session that stays connected and
\* is Searching eventually leaves Searching, by a match or by the periodic sweep
\* that dequeues it, when the sweeps and timers fire fairly.
C17_SearchingEventuallyLeaves ==
    \A s \in Ids : SearchingSession(s) ~> ~SearchingSession(s)

\* a sweep tick from users to users2 leaves every session that is in a call in
\* place, with its inCall and partnerId
BoundUntouched(users, users2) ==
    \A id \in DOMAIN users :
        users[id].inCall =>
            /\ id \in DOMAIN users2
            /\ users2[id].inCall
            /\ users2[id].partnerId = users[id].partnerId

\* C18: a tick of the periodic sweep, in any of the four servers, leaves the
\* existence, inCall and partnerId of every session that is Bound unchanged.
C18_SweepSparesBound ==
    [][/\ SweepB2 => BoundUntouched(usersB2, usersB2')
       /\ SweepLC => BoundUntouched(usersLC, usersLC')
       /\ SweepBT => BoundUntouched(usersBT, usersBT')
       /\ SweepRS => BoundUntouched(userProfiles, userProfiles')]_vars

\* a forwarded chat text: a string, not empty, no whitespace at either end, at
\* most limit characters
CleanText(t, limit) ==
    /\ t.kind = "string"
    /\ t.lead = 0 /\ t.trail = 0
    /\ t.body >= 1
    /\ TextLen(t) <= limit

\* the chat-message records of o carry clean texts, and a text that is empty
\* after trimming is not forwarded
CleanRelay(o, m, limit) ==
    /\ \A r \in o : CleanText(r.message, limit)
    /\ (m.kind = "string" /\ m.body = 0) => o = {}

\* C19: in LiveConnect, BrownTV and server.js every chat-message a session sends
\* reaches its partner with a non-empty, trimmed text of at most the bound (1000,
\* 500, and for server.js the larger of the two), and a text that is empty after
\* trimming is dropped.
C19_ChatSanitized ==
    \A m \in ChatInputs :
        /\ \A s \in DOMAIN usersLC : CleanRelay(chatMessageLC(usersLC, s, m), m, SliceLC)
        /\ \A s \in DOMAIN usersBT : CleanRelay(chatMessageBT(usersBT, s, m), m, SliceBT)
        /\ \A s \in connected : CleanRelay(chatMessageRS(userProfiles, s, m), m, SliceLC)

\* the part of C19 that is about the two servers of src/unnamed/part_001
ChatSanitizedPart001 ==
    \A m \in ChatInputs :
        /\ \A s \in DOMAIN usersLC : CleanRelay(chatMessageLC(usersLC, s, m), m, SliceLC)
        /\ \A s \in DOMAIN usersBT : CleanRelay(chatMessageBT(usersBT, s, m), m, SliceBT)

\* createMatch(a, b) must fail: a profile is missing, one is in a call, or one has
\* the other on its blocked list
MustFail(profiles, a, b) ==
    \/ a \notin DOMAIN profiles
    \/ b \notin DOMAIN profiles
    \/ profiles[a].inCall \/ profiles[b].inCall
    \/ b \in profiles[a].blocked \/ a \in profiles[b].blocked

\* C20: in server.js createMatch(a, b) returns false when a profile is missing,
\* either is in a call or either has blocked the other, and a createMatch that
\* returns false leaves every profile, every queue, the stored hashes and the
\* outstanding work (which creates the call record) as they were.
C20_CreateMatchFails ==
    \A a, b \in Ids :
        LET r == startMatch(userProfiles, waitingUsers, redis, pending, a, b)
        IN  /\ MustFail(userProfiles, a, b) => ~r.ok
            /\ ~r.ok => /\ r.profiles = userProfiles
                        /\ r.queues = waitingUsers
                        /\ r.store = redis
                        /\ r.tasks = pending

\* C20 witness: instant-connect of a has paid its gems and called createMatch(a, b)
\* for the first available profile b, which a has blocked or which has blocked a;
\* the call failed and nobody is bound
C20_Witness ==
    /\ variant = "RS"
    /\ out = {}
    /\ pending = << >>
    /\ \E a, b \in DOMAIN userProfiles :
          /\ a # b
          /\ userProfiles[a].gems = InitialGemsRS - InstantPriceRS
          /\ firstAvailableRS(userProfiles, a) = b
          /\ b \in userProfiles[a].blocked \/ a \in userProfiles[b].blocked
          /\ ~createMatchRS(userProfiles, a, b).ok
          /\ ~userProfiles[a].inCall /\ ~userProfiles[b].inCall

\* C21: in server.js an id whose disconnect handler has run is never afterwards
\* made the partner of a session: no step sets a profile's partnerId to an id
\* that was disconnected before the step.
C21_NoBindToDisconnected ==
    [][\A a \in DOMAIN userProfiles' : \A d \in IdsRS :
          (/\ IdxOf(d) <= nconn
           /\ d \notin connected
           /\ userProfiles'[a].partnerId = d) =>
              /\ a \in DOMAIN userProfiles
              /\ userProfiles[a].partnerId = d]_vars

\* C22: in BrownTV 2.0 a find-match of an idle session, whatever preference it
\* carries, raises no exception: the requester ends in a call or searching in
\* exactly one queue, and no session but the requester and its match changes.
C22_FindMatchNeverThrowsB2 ==
    [][\A s \in Ids :
          (FindMatchB2(s) /\ ~usersB2[s].inCall /\ ~usersB2[s].searching) =>
              /\ ~crashed'
              /\ \/ usersB2'[s].inCall
                 \/ usersB2'[s].searching /\ Occurrences(waitingQueuesB2', s) = 1
              /\ \A o \in DOMAIN usersB2 \ {s, usersB2'[s].partnerId} :
                    usersB2'[o] = usersB2[o]]_vars

\* C23: in BrownTV update-profile overwrites gender and lookingFor with a legal
\* value of the payload and leaves the stored value as it is when the payload's
\* value is outside the legal set.
C23_InvalidValuesIgnoredBT ==
    \A s \in DOMAIN usersBT : \A data \in UpdateDataBT :
        LET u == updateProfileBT(usersBT[s], data)
        IN  /\ data.gender \in {"male", "female"} => u.gender = data.gender
            /\ data.gender \notin {"male", "female", undefined} =>
                  u.gender = usersBT[s].gender
            /\ data.lookingFor \in {"all", "male", "female"} =>
                  u.lookingFor = data.lookingFor
            /\ data.lookingFor \notin {"all", "male", "female", undefined} =>
                  u.lookingFor = usersBT[s].lookingFor

\* m is the entry of q nearest the front that satisfies Ok
NearestFront(q, Ok(_), m) ==
    \E i \in 1..Len(q) : q[i] = m /\ Ok(m) /\ \A j \in 1..(i - 1) : ~Ok(q[j])

NoneOk(q, Ok(_)) == \A i \in 1..Len(q) : ~Ok(q[i])

\* m is what a scan of the preferred queue pq and then, unless pq is the 'all'
\* queue itself, of the 'all' queue aq has to return
ScanResult(m, pq, aq, isAll, Ok1(_), Ok2(_)) ==
    IF m = null
    THEN NoneOk(pq, Ok1) /\ (isAll \/ NoneOk(aq, Ok2))
    ELSE \/ NearestFront(pq, Ok1, m)
         \/ ~isAll /\ NoneOk(pq, Ok1) /\ NearestFront(aq, Ok2, m)

\* every match search of the current state returns the candidate nearest the front
FrontCandidateWins ==
    /\ \A s \in DOMAIN usersBT :
          LET sq == searchQueueBT(usersBT[s])
          IN  ScanResult(findMatchBT(usersBT, waitingQueuesBT, blockedUsersBT, s).matchId,
                         waitingQueuesBT[sq], waitingQueuesBT["all"], sq = "all",
                         LAMBDA m : CandidateOkBT(usersBT, blockedUsersBT, s, m),
                         LAMBDA m : FallbackOkBT(usersBT, blockedUsersBT, s, m))
    /\ \A s \in DOMAIN usersB2 :
          LET qt == usersB2[s].matchPreference
          IN  qt \in DOMAIN waitingQueuesB2 =>
                  ScanResult(findBestMatch(usersB2, waitingQueuesB2, s).matchId,
                             waitingQueuesB2[qt], waitingQueuesB2["all"], qt = "all",
                             LAMBDA m : CandidateOkB2(usersB2, s, m),
                             LAMBDA m : CandidateOkB2(usersB2, s, m))
    /\ \A s \in DOMAIN usersLC :
          ScanResult(findMatchLC(usersLC, waitingQueue, s).matchId,
                     waitingQueue, waitingQueue, TRUE,
                     LAMBDA m : /\ m # s /\ m \in DOMAIN usersLC
                                /\ ~usersLC[m].inCall /\ usersLC[m].searching,
                     LAMBDA m : FALSE)

\* a step keeps the entries that stay in q in their order and puts new ones behind
OrderKept(q, q2) ==
    /\ SelectSeq(q, LAMBDA x : x \in Range(q2)) = SelectSeq(q2, LAMBDA x : x \in Range(q))
    /\ \A i, j \in 1..Len(q2) : (i < j /\ q2[i] \notin Range(q)) => q2[j] \notin Range(q)

NoStaleEntries ==
    /\ \A q \in DOMAIN waitingQueuesB2 : Range(waitingQueuesB2[q]) \subseteq DOMAIN usersB2
    /\ Range(waitingQueue) \subseteq DOMAIN usersLC
    /\ \A q \in DOMAIN waitingQueuesBT : Range(waitingQueuesBT[q]) \subseteq DOMAIN usersBT
    /\ \A q \in DOMAIN waitingUsers :
          \A x \in Range(waitingUsers[q]) : x \in DOMAIN userProfiles /\ redis[x] # NoHash

\* session s of a server of part_001 is neither searching, nor queued, nor in a call
IdlePart001(users, queues, s) ==
    /\ s \in DOMAIN users
    /\ ~users[s].searching /\ ~users[s].inCall
    /\ Occurrences(queues, s) = 0

LCQueues == [all |-> waitingQueue]

\* C26: in BrownTV and LiveConnect cancel-search of a searching session leaves it
\* with searching = false and in no queue, and a session in that state gets into a
\* queue, into searching or into a call only by a find-match it sends itself.
C26_CancelSearchHolds ==
    [][\A s \in Ids :
          /\ (CancelSearchBT(s) /\ usersBT[s].searching) =>
                IdlePart001(usersBT', waitingQueuesBT', s)
          /\ (CancelSearchLC(s) /\ usersLC[s].searching) =>
                IdlePart001(usersLC', [all |-> waitingQueue'], s)
          /\ (/\ IdlePart001(usersBT, waitingQueuesBT, s)
              /\ s \in DOMAIN usersBT'
              /\ ~IdlePart001(usersBT', waitingQueuesBT', s)) => FindMatchBT(s)
          /\ (/\ IdlePart001(usersLC, LCQueues, s)
              /\ s \in DOMAIN usersLC'
              /\ ~IdlePart001(usersLC', [all |-> waitingQueue'], s)) => FindMatchLC(s)]_vars

\* C26 witness: BrownTV has just handled cancel-search of s, which is idle and in no
\* queue, while another session, whose candidate test s passes, is searching
C26_Witness ==
    \E s, t \in DOMAIN usersBT :
        /\ s # t
        /\ out = {[from |-> s, to |-> s, ev |-> "search-cancelled"]}
        /\ IdlePart001(usersBT, waitingQueuesBT, s)
        /\ usersBT[t].searching /\ ~usersBT[t].inCall
        /\ Occurrences(waitingQueuesBT, t) = 1
        /\ CandidateOkBT(usersBT, blockedUsersBT, t, s)

\* session s of BrownTV 2.0 is Idle: not searching, in no queue, not in a call
IdleB2(s) ==
    /\ s \in DOMAIN usersB2
    /\ ~usersB2[s].searching /\ ~usersB2[s].inCall
    /\ Occurrences(waitingQueuesB2, s) = 0

\* session s of server.js is Idle: not in a call, in no queue, and no find-match
\* timer or match attempt of its own is outstanding
IdleRS(s) ==
    /\ s \in DOMAIN userProfiles
    /\ ~userProfiles[s].inCall
    /\ Occurrences(waitingUsers, s) = 0
    /\ \A i \in 1..Len(timers) : timers[i].id # s
    /\ \A i \in 1..Len(pending) : pending[i].a # s

\* C27: a session that is Idle is bound to a partner only by a find-match or an
\* instant-connect it sends itself, never by the request of another session
\* (BrownTV 2.0 and server.js).
C27_IdleNeverBoundByOthers ==
    [][\A s \in Ids :
          /\ (IdleB2(s) /\ s \in DOMAIN usersB2' /\ usersB2'[s].inCall) =>
                (FindMatchB2(s) \/ InstantConnectB2(s))
          /\ (IdleRS(s) /\ s \in DOMAIN userProfiles' /\ userProfiles'[s].inCall) =>
                (s \in IdsRS /\ InstantConnectRS(s))]_vars

\* C28: in BrownTV a block is never taken back, and no two sessions are bound to
\* each other while one has the other on its blocked list; as block-user and
\* report-user end the call in which they are sent, a pair with a block between
\* them is never bound again.
C28_BlockedNeverRebound ==
    /\ [](\A a \in DOMAIN usersBT :
             usersBT[a].inCall =>
                 /\ usersBT[a].partnerId \notin blockedUsersBT[a]
                 /\ a \notin blockedUsersBT[usersBT[a].partnerId])
    /\ [][\A a \in Ids : blockedUsersBT[a] \subseteq blockedUsersBT'[a]]_vars

\* C28 witness: a has blocked b; later b is searching, a has just sent find-match
\* and, though b passes every other test of the scan, a is queued and not bound
C28_Witness ==
    \E a, b \in DOMAIN usersBT :
        /\ b \in blockedUsersBT[a]
        /\ usersBT[b].searching /\ Occurrences(waitingQueuesBT, b) = 1
        /\ usersBT[a].searching /\ Occurrences(waitingQueuesBT, a) = 1
        /\ ~usersBT[a].inCall /\ ~usersBT[b].inCall
        /\ out = {[from |-> a, to |-> a, ev |-> "searching"]}
        /\ usersBT[a].regionFilter = null /\ usersBT[b].regionFilter = null
        /\ usersBT[a].lookingFor = "all" /\ usersBT[b].lookingFor = "all"

\* the lifecycle fields of a user that a teardown leaves
TeardownFields(u) ==
    [inCall |-> u.inCall, partnerId |-> u.partnerId, callStartTime |-> u.callStartTime,
     searching |-> u.searching]

\* C29: in BrownTV, when A is bound to B, B's inCall, partnerId, callStartTime and
\* searching are the same after A's end-call or next-partner (both endCall) as
\* after A's disconnect.
C29_SingleTeardownBT ==
    \A a \in DOMAIN usersBT :
        LET b == usersBT[a].partnerId
        IN  (usersBT[a].inCall /\ b \in DOMAIN usersBT) =>
                TeardownFields(endCallBT(usersBT, a).users[b])
                    = TeardownFields(disconnectBT(usersBT, a)[b])

\* the sessions a handler of s may change: s, its partner before and its partner after
TouchedBy(users, users2, s) ==
    {s} \cup (IF s \in DOMAIN users THEN {users[s].partnerId} ELSE {})
        \cup (IF s \in DOMAIN users2 THEN {users2[s].partnerId} ELSE {})

\* every other session keeps inCall, partnerId and searching, its queue and its
\* place among the other sessions of that queue
FrameKept(users, users2, queues, queues2, s) ==
    LET others == DOMAIN users \ TouchedBy(users, users2, s)
    IN  /\ \A o \in others :
              /\ o \in DOMAIN users2
              /\ users2[o].inCall = users[o].inCall
              /\ users2[o].partnerId = users[o].partnerId
              /\ users2[o].searching = users[o].searching
        /\ \A q \in DOMAIN queues :
              SelectSeq(queues[q], LAMBDA x : x \in others)
                  = SelectSeq(queues2[q], LAMBDA x : x \in others)

\* C30: end-call, next-partner, cancel-search, find-match and disconnect of a
\* session s change inCall, partnerId and searching of s and of its partner or
\* match only, and leave the other sessions in their queues in their order
\* (BrownTV, LiveConnect, and find-match and disconnect of BrownTV 2.0, where an
\* exception that ends the process takes the other sessions with it).
C30_HandlerFrame ==
    [][\A s \in Ids :
          /\ (\/ EndCallBT(s) \/ NextPartnerBT(s) \/ CancelSearchBT(s)
              \/ FindMatchBT(s) \/ DisconnectBT(s)) =>
                FrameKept(usersBT, usersBT', waitingQueuesBT, waitingQueuesBT', s)
          /\ (\/ EndCallLC(s) \/ NextPartnerLC(s) \/ CancelSearchLC(s)
              \/ FindMatchLC(s) \/ DisconnectLC(s)) =>
                FrameKept(usersLC, usersLC', LCQueues, [all |-> waitingQueue'], s)
          /\ (FindMatchB2(s) \/ DisconnectB2(s)) =>
                /\ FrameKept(usersB2, usersB2', waitingQueuesB2, waitingQueuesB2', s)
                /\ DOMAIN usersB2 \ {s} # {} => ~crashed']_vars

\* ---------------------------------------------------------------------------
\* C31.  After each tick of a housekeeping sweep no waiting queue holds an id
\* whose session no longer exists: the step of a sweep (LiveConnect, BrownTV,
\* BrownTV 2.0, server.js) ends in a state in which every queue entry names a
\* session of the session table.
C31_SweepLeavesNoStale ==
    [][(SweepLC \/ SweepBT \/ SweepB2 \/ SweepRS) => NoStaleEntries']_vars

\* the sweep of server.js has deleted the profile of an open socket whose find-match
\* timer is still armed (the profile was queued by that find-match), and the queues
\* no longer hold it
C31_Witness ==
    /\ variant = "RS"
    /\ \E i \in 1..Len(timers) :
          /\ timers[i].profile = "idle"
          /\ timers[i].id \in connected
          /\ timers[i].id \notin DOMAIN userProfiles
          /\ Occurrences(waitingUsers, timers[i].id) = 0

\* the queues as a scan of findMatch leaves them when the reply for task t
\* arrives and the candidate passes: queue.splice(i, 1) at the index read before
\* the await
afterScanSplice(t) ==
    [waitingUsers EXCEPT ![scanPlan(t.ud)[t.k].q] = spliceAt(@, t.i)]

\* queues2 is queues with one entry of id taken out of queue q, all else as it was
RemovedExactly(queues, queues2, q, id) ==
    /\ \A p \in DOMAIN queues \ {q} : queues2[p] = queues[p]
    /\ \E j \in 1..Len(queues[q]) :
          queues[q][j] = id /\ queues2[q] = spliceAt(queues[q], j)

\* the oldest pending reply is the hGetAll of a scan whose candidate passes the test:
\* the scan returns candidateId when the reply arrives
ScanReturns ==
    /\ pending # << >>
    /\ Head(pending).kind = "find-cand"
    /\ candidateAccepted(scanPlan(Head(pending).ud)[Head(pending).k].phase,
                         Head(pending).ud, Head(pending).cd)

\* ---------------------------------------------------------------------------
\* C32.  In server.js, under any interleaving of handlers at the awaits of
\* findMatch, a scan (findExactMatch, findReverseMatch, findRandomMatch) that
\* returns a candidate removes exactly that candidate's entry from the queue it
\* scans and no other entry.
C32_ScanRemovesReturned ==
    [][(ResumeRS /\ ScanReturns) =>
          RemovedExactly(waitingUsers, afterScanSplice(Head(pending)),
                         scanPlan(Head(pending).ud)[Head(pending).k].q,
                         Head(pending).b)]_vars

\* ---------------------------------------------------------------------------
\* C33.  In server.js no searching user is silently dropped: when a scan of
\* findMatch has returned a candidate (and spliced the queue), then after the
\* createMatch that follows, also when it returns false, the candidate is in a
\* call or is present in a waiting queue.
C33_CandidateNotDropped ==
    [][(ResumeRS /\ ScanReturns) =>
          \/ /\ Head(pending).b \in DOMAIN userProfiles'
             /\ userProfiles'[Head(pending).b].inCall
          \/ Occurrences(waitingUsers', Head(pending).b) > 0]_vars

\* ---------------------------------------------------------------------------
\* C34.  In server.js the deferred match attempt of find-match binds the
\* requester only if the requester was still waiting in a queue when its timer
\* fired: a requester that was matched and has ended the call, or was otherwise
\* removed from the queues, before the timer fires is not bound by that timer.
C34_TimerBindsOnlyWaiting ==
    [][(/\ ResumeRS
        /\ ScanReturns
        /\ Head(pending).a \in DOMAIN userProfiles
        /\ ~userProfiles[Head(pending).a].inCall
        /\ userProfiles'[Head(pending).a].inCall)
       => Head(pending).waiting]_vars

\* a session that waits for a partner: searching and not in a call
WaitingBT(users, s) == s \in DOMAIN users /\ users[s].searching /\ ~users[s].inCall

\* two distinct waiting sessions of BrownTV that pass findMatch's candidate test
\* (gender interest, region filter, block list) in both directions
CompatiblePairBT(users, blocked, a, b) ==
    /\ a # b
    /\ WaitingBT(users, a) /\ WaitingBT(users, b)
    /\ CandidateOkBT(users, blocked, a, b)
    /\ CandidateOkBT(users, blocked, b, a)

\* the same for BrownTV 2.0 with matchUsers
CompatiblePairB2(users, a, b) ==
    /\ a # b
    /\ WaitingBT(users, a) /\ WaitingBT(users, b)
    /\ CandidateOkB2(users, a, b)
    /\ CandidateOkB2(users, b, a)

\* ---------------------------------------------------------------------------
\* C35.  Matching is work-conserving in BrownTV and BrownTV 2.0: after every
\* find-match handler has completed there is no pair of distinct Searching
\* sessions that satisfy each other's filters (gender interest, region, block
\* list) in both directions.
C35_WorkConserving ==
    [][\A s \in Ids :
          /\ FindMatchBT(s) =>
                \A a, b \in Ids : ~CompatiblePairBT(usersBT', blockedUsersBT', a, b)
          /\ (FindMatchB2(s) /\ ~crashed') =>
                \A a, b \in Ids : ~CompatiblePairB2(usersB2', a, b)]_vars

\* ---------------------------------------------------------------------------
\* C36.  In LiveConnect the rooms map is consistent with the sessions after
\* every handler: a room is in rooms exactly when its user1 and user2 both
\* exist, are each other's partnerId, have inCall = true and have its id as
\* roomId; every session with a roomId refers to an existing room; no room is
\* left behind after end-call, next-partner or disconnect.
C36_RoomsConsistentLC ==
    /\ \A r \in DOMAIN rooms :
          /\ rooms[r].user1 \in DOMAIN usersLC
          /\ rooms[r].user2 \in DOMAIN usersLC
          /\ usersLC[rooms[r].user1].partnerId = rooms[r].user2
          /\ usersLC[rooms[r].user2].partnerId = rooms[r].user1
          /\ usersLC[rooms[r].user1].inCall
          /\ usersLC[rooms[r].user2].inCall
          /\ usersLC[rooms[r].user1].roomId = r
          /\ usersLC[rooms[r].user2].roomId = r
    /\ \A s \in DOMAIN usersLC :
          /\ usersLC[s].roomId # null => usersLC[s].roomId \in DOMAIN rooms
          /\ usersLC[s].inCall =>
                \E r \in DOMAIN rooms : s \in {rooms[r].user1, rooms[r].user2}

\* a handler of LiveConnect has just ended a call (partner-left was sent) and no
\* room is left
C36_Witness ==
    /\ variant = "LC"
    /\ rooms = << >>
    /\ \E o \in out : o.ev = "partner-left"

\* the inCall figure of broadcastStats: filter(u => u.inCall).length / 2, as the
\* whole part and whether the division leaves no half
statsInCall(users) ==
    LET n == Cardinality({s \in DOMAIN users : users[s].inCall})
    IN  [floor |-> n \div 2, whole |-> n % 2 = 0]

\* the pairs of sessions that are bound to each other
BoundPairs(users) ==
    {pair \in SUBSET DOMAIN users :
        \E a, b \in pair :
            /\ a # b /\ pair = {a, b}
            /\ users[a].partnerId = b /\ users[b].partnerId = a}

ActiveCallsExact(users) ==
    /\ statsInCall(users).whole
    /\ statsInCall(users).floor = Cardinality(BoundPairs(users))

\* ---------------------------------------------------------------------------
\* C37.  The active-call counter published in stats (inCall) is in every
\* reachable state a whole number equal to the number of bound pairs: the
\* number of profiles with inCall = true is always even (server.js, BrownTV 2.0,
\* BrownTV).
C37_ActiveCallsExact ==
    /\ ActiveCallsExact(userProfiles)
    /\ ActiveCallsExact(usersB2)
    /\ ActiveCallsExact(usersBT)

\* no session of users has itself as partnerId
NoSelfBind(users) == \A s \in DOMAIN users : users[s].partnerId # s

====
